---- MODULE Spec2Model ----
(***************************************************************************)
(* AI-assisted schema modification of flowy-form: the Schema Validator,    *)
(* the Complexity Accountant, the Safety Checker (validateAISolution) and  *)
(* the Generation Orchestrator (generateAIAssistance) with the route that  *)
(* answers POST /form-assist.                                              *)
(*                                                                         *)
(* JavaScript values are modelled as tagged records:                       *)
(*   [t |-> "undef"]            an absent property / undefined             *)
(*   [t |-> "null"]             null                                       *)
(*   [t |-> "num", n |-> 5]     a number                                   *)
(*   [t |-> "str", s |-> "a"]   a string                                   *)
(*   [t |-> "bool", b |-> TRUE] a boolean                                  *)
(*   [t |-> "arr", items |-> <<...>>]   an array                           *)
(*   [t |-> "obj", f |-> (name :> value @@ ...)]   a plain object          *)
(* A function that can throw returns Thrown or Ok(value).                  *)
(***************************************************************************)
EXTENDS Integers, Sequences, FiniteSets, TLC

VARIABLES
  original,    \* Safety Checker: the originalSchema argument
  candidate,   \* Safety Checker: the newSchema argument
  verdict,     \* Safety Checker: what validateAISolution returned or threw
  variant,     \* which generateAIAssistance is deployed (generateText / generateObject)
  ui,          \* the client: the AI assistant dialog and its useAiFormAssist state
  pair,        \* two overlapping generateAIAssistance invocations and their event log
  lib,         \* the calls made of calculateSchemaComplexity and validateFormioSchema
  via,         \* who calls generateAIAssistance: the route, or a caller of the service
  aiEnabled,   \* env: isAiEnabled()
  versionFound, \* db: getVersionBySha finds the version named in the path
  request,     \* the AiAssistRequest {message, currentSchema}
  pc,          \* position of the request: in the route, or in generateAIAssistance
  calls,       \* number of invocations of the external generation capability
  aiOutput,    \* how the awaited generation call settled
  outcome,     \* what generateAIAssistance returned or threw
  http         \* the route's response to POST /form-assist

vars == <<original, candidate, verdict, variant, via, aiEnabled, versionFound, ui, request, pair, lib, pc, calls, aiOutput,
          outcome, http>>

----------------------------------------------------------------------------
(* JavaScript values *)

Undef == [t |-> "undef"]
Null == [t |-> "null"]
Num(n) == [t |-> "num", n |-> n]
Str(s) == [t |-> "str", s |-> s]
Bool(b) == [t |-> "bool", b |-> b]
Arr(items) == [t |-> "arr", items |-> items]
Obj(f) == [t |-> "obj", f |-> f]

\* value.name : a property read on a value that is not null/undefined
\* a property that is left out when its value is undefined
Prop(name, value) == IF value = Undef THEN <<>> ELSE (name :> value)

Get(value, name) ==
  IF value.t = "obj" /\ name \in DOMAIN value.f THEN value.f[name] ELSE Undef

\* name in value
HasProp(value, name) == value.t = "obj" /\ name \in DOMAIN value.f

\* reading a property of null or undefined is a TypeError
IsNullish(value) == value.t \in {"undef", "null"}

\* if (value)
Truthy(value) ==
  CASE value.t \in {"undef", "null"} -> FALSE
    [] value.t = "num" -> value.n # 0
    [] value.t = "str" -> value.s # ""
    [] value.t = "bool" -> value.b
    [] OTHER -> TRUE

\* for (const x of value) is a TypeError unless value is an array or a string
Iterable(value) == value.t \in {"arr", "str"}

\* what for..of yields: the items of an array, the characters of a string
Elements(value) ==
  IF value.t = "arr" THEN value.items
  ELSE [i \in 1..Len(value.s) |-> Str("c")]

\* a || b
OrElse(a, b) == IF Truthy(a) THEN a ELSE b

Thrown == [threw |-> TRUE]
Ok(v) == [threw |-> FALSE, v |-> v]

\* the sum of s[lo..hi], by halves to keep the recursion shallow
RECURSIVE SumRange(_, _, _)
SumRange(s, lo, hi) ==
  IF lo > hi THEN 0
  ELSE IF lo = hi THEN s[lo]
  ELSE SumRange(s, lo, (lo + hi) \div 2) + SumRange(s, (lo + hi) \div 2 + 1, hi)

SumSeq(s) == SumRange(s, 1, Len(s))

\* the concatenation of s[lo..hi], by halves
RECURSIVE ConcatRange(_, _, _)
ConcatRange(s, lo, hi) ==
  IF lo > hi THEN <<>>
  ELSE IF lo = hi THEN s[lo]
  ELSE ConcatRange(s, lo, (lo + hi) \div 2) \o ConcatRange(s, (lo + hi) \div 2 + 1, hi)

ConcatSeq(s) == ConcatRange(s, 1, Len(s))

\* the sum of a sequence of results; a throw anywhere is a throw
SumOk(rs) ==
  IF \E i \in DOMAIN rs : rs[i].threw THEN Thrown
  ELSE Ok(SumSeq([i \in DOMAIN rs |-> rs[i].v]))

\* the concatenation of a sequence of results; a throw anywhere is a throw
ConcatOk(rs) ==
  IF \E i \in DOMAIN rs : rs[i].threw THEN Thrown
  ELSE Ok(ConcatSeq([i \in DOMAIN rs |-> rs[i].v]))

\* s[lo] sep s[lo+1] sep ... s[hi], by halves
RECURSIVE JoinRange(_, _, _, _)
JoinRange(s, sep, lo, hi) ==
  IF lo > hi THEN ""
  ELSE IF lo = hi THEN s[lo]
  ELSE JoinRange(s, sep, lo, (lo + hi) \div 2) \o sep
         \o JoinRange(s, sep, (lo + hi) \div 2 + 1, hi)

\* Array.prototype.join
Join(s, sep) == JoinRange(s, sep, 1, Len(s))

----------------------------------------------------------------------------
(* Complexity Accountant: formio-validation.ts *)

MAX_SCHEMA_COMPLEXITY_FOR_AI == 50

RECURSIVE countComponents(_)
RECURSIVE countNested(_)

\* one iteration of the loop of countComponents: what a component adds
\* beyond itself
countNested(component) ==
  IF IsNullish(component) THEN Thrown
  ELSE
    LET direct == Get(component, "components")
        columns == Get(component, "columns")
        rows == Get(component, "rows")
        ofHolder(holder) ==
          IF IsNullish(holder) THEN Thrown
          ELSE IF Truthy(Get(holder, "components"))
               THEN countComponents(Get(holder, "components"))
               ELSE Ok(0)
        ofRow(row) ==
          IF ~Iterable(row) THEN Thrown
          ELSE SumOk([j \in DOMAIN Elements(row) |-> ofHolder(Elements(row)[j])])
        a == IF Truthy(direct) THEN countComponents(direct) ELSE Ok(0)
        b == IF ~Truthy(columns) THEN Ok(0)
             ELSE IF ~Iterable(columns) THEN Thrown
             ELSE SumOk([j \in DOMAIN Elements(columns) |-> ofHolder(Elements(columns)[j])])
        c == IF ~Truthy(rows) THEN Ok(0)
             ELSE IF ~Iterable(rows) THEN Thrown
             ELSE SumOk([j \in DOMAIN Elements(rows) |-> ofRow(Elements(rows)[j])])
    IN SumOk(<<a, b, c>>)

\* a count of the list alone, without what its components own
countComponentsShallow(components) ==
  IF ~Iterable(components) THEN Thrown ELSE Ok(Len(Elements(components)))

countComponents(components) ==
  IF ~Iterable(components) THEN Thrown
  ELSE
    LET items == Elements(components)
        nested == SumOk([i \in DOMAIN items |-> countNested(items[i])])
    IN IF nested.threw THEN Thrown ELSE Ok(Len(items) + nested.v)

calculateSchemaComplexity(schema) ==
  IF IsNullish(schema) THEN Thrown
  ELSE countComponents(OrElse(Get(schema, "components"), Arr(<<>>)))

----------------------------------------------------------------------------
(* Client-side estimate: AiService.calculateSchemaComplexity, ai-service.ts *)

RECURSIVE aiServiceCountComponents(_)
RECURSIVE aiServiceCountNested(_)

\* a client count that leaves out what the rows of a component own
aiServiceCountNestedNoRows(component) ==
  IF IsNullish(component) THEN Thrown
  ELSE
    LET direct == Get(component, "components")
        columns == Get(component, "columns")
        ofHolder(holder) ==
          IF IsNullish(holder) THEN Thrown
          ELSE IF Truthy(Get(holder, "components"))
               THEN aiServiceCountComponents(Get(holder, "components"))
               ELSE Ok(0)
        a == IF Truthy(direct) THEN aiServiceCountComponents(direct) ELSE Ok(0)
        b == IF ~Truthy(columns) THEN Ok(0)
             ELSE IF ~Iterable(columns) THEN Thrown
             ELSE SumOk([j \in DOMAIN Elements(columns) |-> ofHolder(Elements(columns)[j])])
    IN SumOk(<<a, b>>)

\* one iteration of the client's loop: what a component adds beyond itself
aiServiceCountNested(component) ==
  IF IsNullish(component) THEN Thrown
  ELSE
    LET direct == Get(component, "components")
        columns == Get(component, "columns")
        rows == Get(component, "rows")
        ofHolder(holder) ==
          IF IsNullish(holder) THEN Thrown
          ELSE IF Truthy(Get(holder, "components"))
               THEN aiServiceCountComponents(Get(holder, "components"))
               ELSE Ok(0)
        ofRow(row) ==
          IF ~Iterable(row) THEN Thrown
          ELSE SumOk([j \in DOMAIN Elements(row) |-> ofHolder(Elements(row)[j])])
        a == IF Truthy(direct) THEN aiServiceCountComponents(direct) ELSE Ok(0)
        b == IF ~Truthy(columns) THEN Ok(0)
             ELSE IF ~Iterable(columns) THEN Thrown
             ELSE SumOk([j \in DOMAIN Elements(columns) |-> ofHolder(Elements(columns)[j])])
        c == IF ~Truthy(rows) THEN Ok(0)
             ELSE IF ~Iterable(rows) THEN Thrown
             ELSE SumOk([j \in DOMAIN Elements(rows) |-> ofRow(Elements(rows)[j])])
    IN SumOk(<<a, b, c>>)

\* lines 96-122: a value that is no array counts 0
aiServiceCountComponents(components) ==
  IF ~Truthy(components) \/ components.t # "arr" THEN Ok(0)
  ELSE
    LET items == Elements(components)
        nested == SumOk([i \in DOMAIN items |-> aiServiceCountNested(items[i])])
    IN IF nested.threw THEN Thrown ELSE Ok(Len(items) + nested.v)

\* line 124
aiServiceCalculateSchemaComplexity(schema) ==
  IF IsNullish(schema) THEN Thrown
  ELSE aiServiceCountComponents(OrElse(Get(schema, "components"), Arr(<<>>)))

----------------------------------------------------------------------------
(* Schema Validator: formio-validation.ts *)

\* a rejection that carries no message
InvalidSilent(message) == [valid |-> FALSE, errors |-> Arr(<<>>), data |-> Undef]

Invalid(message) == [valid |-> FALSE, errors |-> Arr(<<message>>), data |-> Undef]

\* a validator that hands back an object of its own instead of its input
validateFormioSchemaBare(schema) ==
  IF Truthy(schema) /\ schema.t = "obj" /\ Get(schema, "components").t = "arr"
  THEN [valid |-> TRUE, errors |-> Undef, data |-> Obj(<<>>)]
  ELSE Invalid("Schema must be an object with a components array")

validateFormioSchema(schema) ==
  IF ~Truthy(schema) \/ schema.t # "obj" \/ ~HasProp(schema, "components")
  THEN Invalid("Schema must be an object with a components array")
  ELSE IF Get(schema, "components").t # "arr"
  THEN Invalid("Schema components must be an array")
  ELSE IF Truthy(Get(schema, "type")) /\ Get(schema, "type") # Str("form")
          /\ Get(schema, "type") # Str("wizard")
  THEN Invalid("Schema type must be \"form\" or \"wizard\"")
  ELSE IF Truthy(Get(schema, "display")) /\ Get(schema, "display") # Str("form")
          /\ Get(schema, "display") # Str("wizard")
  THEN Invalid("Schema display must be \"form\" or \"wizard\"")
  ELSE [valid |-> TRUE, errors |-> Undef, data |-> schema]

----------------------------------------------------------------------------
(* Safety Checker: lib/ai/utils *)

\* the pre-gate with the limit itself already over it (>= for >)
exceedsLimitInclusive(complexity) ==
  IF complexity.threw THEN Thrown
  ELSE Ok(complexity.v >= MAX_SCHEMA_COMPLEXITY_FOR_AI)

exceedsLimit(complexity) ==
  IF complexity.threw THEN Thrown
  ELSE Ok(complexity.v > MAX_SCHEMA_COMPLEXITY_FOR_AI)

isSchemaTooBigForAI(schema) == exceedsLimit(calculateSchemaComplexity(schema))

RECURSIVE extractFromComponents(_)
RECURSIVE extractFromComponent(_)

\* one iteration of the loop of extractFromComponents: the keys pushed for
\* one component, in push order
extractFromComponent(component) ==
  IF IsNullish(component) THEN Thrown
  ELSE
    LET key == Get(component, "key")
        direct == Get(component, "components")
        columns == Get(component, "columns")
        rows == Get(component, "rows")
        ofHolder(holder) ==
          IF IsNullish(holder) THEN Thrown
          ELSE IF Truthy(Get(holder, "components"))
               THEN extractFromComponents(Get(holder, "components"))
               ELSE Ok(<<>>)
        ofRow(row) ==
          IF ~Iterable(row) THEN Thrown
          ELSE ConcatOk([j \in DOMAIN Elements(row) |-> ofHolder(Elements(row)[j])])
        own == IF Truthy(key) THEN Ok(<<key.s>>) ELSE Ok(<<>>)
        a == IF Truthy(direct) THEN extractFromComponents(direct) ELSE Ok(<<>>)
        b == IF ~Truthy(columns) THEN Ok(<<>>)
             ELSE IF ~Iterable(columns) THEN Thrown
             ELSE ConcatOk([j \in DOMAIN Elements(columns) |-> ofHolder(Elements(columns)[j])])
        c == IF ~Truthy(rows) THEN Ok(<<>>)
             ELSE IF ~Iterable(rows) THEN Thrown
             ELSE ConcatOk([j \in DOMAIN Elements(rows) |-> ofRow(Elements(rows)[j])])
    IN ConcatOk(<<own, a, b, c>>)

extractFromComponents(components) ==
  IF ~Iterable(components) THEN Thrown
  ELSE ConcatOk([i \in DOMAIN Elements(components) |->
                   extractFromComponent(Elements(components)[i])])

extractAllComponentKeys(schema) ==
  IF IsNullish(schema) THEN Thrown
  ELSE extractFromComponents(OrElse(Get(schema, "components"), Arr(<<>>)))

\* the seen set when the loop of findDuplicateKeys reaches keys[i]: every
\* earlier key was either added to it or already in it
seenBefore(keys, i) == {keys[j] : j \in 1..(i - 1)}

\* the loop of findDuplicateKeys: a key already seen is pushed
duplicatesIn(keys) ==
  ConcatSeq([i \in DOMAIN keys |->
               IF keys[i] \in seenBefore(keys, i) THEN <<keys[i]>> ELSE <<>>])

duplicatesAmong(keys) ==
  IF keys.threw THEN Thrown ELSE Ok(duplicatesIn(keys.v))

findDuplicateKeys(schema) == duplicatesAmong(extractAllComponentKeys(schema))

\* originalKeys.filter((key) => !newKeys.includes(key))
\* the removal filter without its look-up in the new keys
removedKeysUnfiltered(originalKeys, newKeys) == originalKeys

removedKeysOf(originalKeys, newKeys) ==
  SelectSeq(originalKeys, LAMBDA key : ~(\E j \in DOMAIN newKeys : newKeys[j] = key))

\* the removal threshold with exactly half already over it (>= for >)
tooManyRemovedAtHalf(removedKeys, originalKeys) ==
  2 * Len(removedKeys) >= Len(originalKeys)

\* removedKeys.length > originalKeys.length * 0.5, both sides doubled (the
\* product with 0.5 is exact in floating point)
tooManyRemoved(removedKeys, originalKeys) ==
  2 * Len(removedKeys) > Len(originalKeys)

\* the ceiling with the value at it already over it (>= for >)
tooComplexAtCeiling(complexity) == complexity >= MAX_SCHEMA_COMPLEXITY_FOR_AI * 2

\* complexity > MAX_SCHEMA_COMPLEXITY_FOR_AI * 2
tooComplex(complexity) == complexity > MAX_SCHEMA_COMPLEXITY_FOR_AI * 2

ComplexityIssue(complexity) ==
  "Solution is too complex (" \o ToString(complexity) \o " components)"

RemovalIssue(removedKeys) ==
  "Solution removes too many existing form fields: " \o Join(removedKeys, ", ")
    \o ". This may cause significant data loss."

DuplicateIssue(duplicateKeys) ==
  "Solution contains duplicate component keys: " \o Join(duplicateKeys, ", ")

\* lines 265-268
verdictOf(issues) ==
  Ok([valid |-> Len(issues) = 0,
      issues |-> IF Len(issues) > 0 THEN Arr(issues) ELSE Undef])

\* the body of validateAISolution, given what its five calls returned
issuesFound(validation, complexity, originalKeys, newKeys, duplicateKeys) ==
  IF complexity.threw \/ originalKeys.threw \/ newKeys.threw \/ duplicateKeys.threw
  THEN Thrown
  ELSE
    LET issues1 == IF ~validation.valid THEN validation.errors.items ELSE <<>>
        issues2 == IF tooComplex(complexity.v)
                   THEN <<ComplexityIssue(complexity.v)>> ELSE <<>>
        issues3 == IF tooManyRemoved(removedKeysOf(originalKeys.v, newKeys.v), originalKeys.v)
                   THEN <<RemovalIssue(removedKeysOf(originalKeys.v, newKeys.v))>> ELSE <<>>
        issues4 == IF Len(duplicateKeys.v) > 0
                   THEN <<DuplicateIssue(duplicateKeys.v)>> ELSE <<>>
    IN verdictOf(issues1 \o issues2 \o issues3 \o issues4)

validateAISolution(originalSchema, newSchema) ==
  issuesFound(validateFormioSchema(newSchema),
              calculateSchemaComplexity(newSchema),
              extractAllComponentKeys(originalSchema),
              extractAllComponentKeys(newSchema),
              findDuplicateKeys(newSchema))

\* the issues of a verdict, none when issues is undefined
Issues(result) == IF result.v.issues.t = "arr" THEN result.v.issues.items ELSE <<>>
HasIssue(result, text) == \E i \in DOMAIN Issues(result) : Issues(result)[i] = text

----------------------------------------------------------------------------
(* Schemas the functions are applied to *)

MaxKeyNames == 2
MaxOriginalNodes == 1
MaxCandidateNodes == 2

Key(i) == "k" \o ToString(i)

\* the keys a small component may carry; "" is a key the traversal skips
KeyNames == {Key(i) : i \in 1..MaxKeyNames} \cup {""}

Nestings == {"components", "columns", "rows"}

Leaf(key) == Obj(("type" :> Str("textfield")) @@ ("key" :> Str(key)))

\* a component owning kids through one of the three nesting mechanisms
Nest(key, nesting, kids) ==
  CASE nesting = "components" ->
         Obj(("type" :> Str("panel")) @@ ("key" :> Str(key))
             @@ ("components" :> Arr(kids)))
    [] nesting = "columns" ->
         Obj(("type" :> Str("columns")) @@ ("key" :> Str(key))
             @@ ("columns" :> Arr(<<Obj("components" :> Arr(kids))>>)))
    [] nesting = "rows" ->
         Obj(("type" :> Str("table")) @@ ("key" :> Str(key))
             @@ ("rows" :> Arr(<<Arr(<<Obj("components" :> Arr(kids))>>)>>)))

RECURSIVE ForestExact(_)
RECURSIVE CompExact(_)

\* the components of exactly m nodes
CompExact(m) ==
  IF m = 1 THEN {Leaf(k) : k \in KeyNames}
  ELSE {Nest(k, nesting, kids) :
          k \in KeyNames, nesting \in Nestings, kids \in ForestExact(m - 1)}

\* the component lists of exactly n nodes
ForestExact(n) ==
  IF n = 0 THEN {<<>>}
  ELSE UNION {{<<c>> \o rest : c \in CompExact(m), rest \in ForestExact(n - m)} :
                m \in 1..n}

Forests(n) == UNION {ForestExact(i) : i \in 0..n}

SchemaOf(components) ==
  Obj(("type" :> Str("form")) @@ ("components" :> Arr(components)))

\* n un-nested fields keyed k1..kn
FlatFields(n) == [i \in 1..n |-> Leaf(Key(i))]
Flat(n) == SchemaOf(FlatFields(n))

\* one panel owning n un-nested fields
Panel(n) == SchemaOf(<<Nest("panel", "components", FlatFields(n))>>)

\* the items of s at the positions in keep, in order
Pick(s, keep) == ConcatSeq([i \in DOMAIN s |-> IF i \in keep THEN <<s[i]>> ELSE <<>>])

\* every schema keeping a subset of the ten fields of Flat(10), with or
\* without one new field
TenFieldEdits ==
  {SchemaOf(Pick(FlatFields(10), keep) \o extra) :
     keep \in SUBSET (1..10), extra \in {<<>>, <<Leaf("added")>>}}

\* schemas at and around the limits, and values that are no schema
EdgeSchemas ==
  { Null, Num(5), Obj(<<>>),
    Obj("components" :> Null),
    Obj("components" :> Num(5)),
    Obj("components" :> Str("ab")),
    Obj("components" :> Obj(<<>>)),
    Obj("components" :> Arr(<<Null>>)),
    Obj("components" :> Arr(<<Leaf("k1"), Leaf("k1"), Null>>)),
    Obj("components" :> Arr(<<Leaf("k1"), Num(5), Leaf("k1")>>)),
    Obj("components" :> Arr(<<Obj(("key" :> Str("k1")) @@ ("components" :> Num(5)))>>)),
    Obj("components" :> Arr(<<Obj(("key" :> Str("k1")) @@ ("columns" :> Arr(<<Null>>)))>>)),
    Obj("components" :> Arr(<<Obj(("key" :> Str("k1")) @@ ("rows" :> Arr(<<Num(5)>>)))>>)),
    Obj(("type" :> Str("other")) @@ ("components" :> Arr(<<Leaf("k1"), Leaf("k1")>>))),
    Obj(("type" :> Str("other")) @@ ("components" :> Num(5))),
    Obj(("type" :> Str("wizard")) @@ ("display" :> Str("wizard"))
        @@ ("components" :> Arr(<<Leaf("k1")>>))),
    Obj(("display" :> Str("pdf")) @@ ("components" :> Arr(<<Leaf("k1")>>))),
    Flat(0), Flat(1), Flat(2), Flat(50), Flat(51), Flat(100), Flat(101),
    Panel(49), Panel(50), Panel(99), Panel(100),
    SchemaOf(FlatFields(100) \o <<Leaf("k1")>>),
    SchemaOf(FlatFields(101) \o <<Leaf("k1")>>),
    SchemaOf(<<Leaf("k1"), Leaf("k1"), Leaf("k2")>>) }

SmallOriginals == {SchemaOf(c) : c \in Forests(MaxOriginalNodes)}
SmallCandidates == {SchemaOf(c) : c \in Forests(MaxCandidateNodes)}

\* the (originalSchema, newSchema) pairs validateAISolution is applied to
SafetyInputs ==
  (SmallOriginals \X SmallCandidates)
    \cup {<<schema, schema>> : schema \in SmallCandidates}
    \cup ({Flat(10)} \X TenFieldEdits)
    \cup (EdgeSchemas \X EdgeSchemas)
    \cup (SmallOriginals \X EdgeSchemas)
    \cup (EdgeSchemas \X SmallCandidates)

----------------------------------------------------------------------------
(* Applying the Safety Checker *)

NotRun == [done |-> FALSE]
Ran(result) == [done |-> TRUE, result |-> result]

\* no dialog mounted
UiIdle == [mounted |-> FALSE]

\* no overlapping invocations
PairIdle == [inv |-> <<>>, log |-> <<>>]

\* no call of calculateSchemaComplexity or validateFormioSchema made yet
LibIdle == [complexity |-> NotRun, wrapped |-> NotRun, client |-> NotRun,
            validation |-> NotRun, revalidation |-> NotRun, posted |-> NotRun]

NoRequest == [message |-> "", currentSchema |-> Null]

InitSafety ==
  /\ \E input \in SafetyInputs :
       /\ original = input[1]
       /\ candidate = input[2]
  /\ verdict = NotRun
  /\ variant = "generateText"
  /\ via = "service"
  /\ lib = LibIdle
  /\ ui = UiIdle
  /\ pair = PairIdle
  /\ aiEnabled = FALSE
  /\ versionFound = FALSE
  /\ request = NoRequest
  /\ pc = "off"
  /\ calls = 0
  /\ aiOutput = NotRun
  /\ outcome = NotRun
  /\ http = NotRun

\* validateAISolution(original, candidate) is called
CheckSafety ==
  /\ pc = "off"
  /\ ~verdict.done
  /\ verdict' = Ran(validateAISolution(original, candidate))
  /\ UNCHANGED <<original, candidate, variant, via, aiEnabled, versionFound, ui, request, pair, lib, pc, calls, aiOutput,
                  outcome, http>>

NextSafety == CheckSafety

SpecSafety == InitSafety /\ [][NextSafety]_vars

----------------------------------------------------------------------------
(* Response Formatter: lib/ai/templates.  Markdown is the sequence of its  *)
(* lines; an array of strings holds the strings themselves; the emoji of   *)
(* the fixed text are left out.                                            *)

\* the interpolation without its length test: a section for every array
warningsSectionUnguarded(warnings) ==
  IF warnings.t = "arr"
  THEN <<"", "### Warnings:">>
         \o [i \in DOMAIN warnings.items |-> "- " \o warnings.items[i]]
         \o <<"">>
  ELSE <<"">>

\* the line holding the ${warnings ... } interpolation
warningsSection(warnings) ==
  IF warnings.t = "arr" /\ Len(warnings.items) > 0
  THEN <<"", "### Warnings:">>
         \o [i \in DOMAIN warnings.items |-> "- " \o warnings.items[i]]
         \o <<"">>
  ELSE <<"">>

formatMarkdownResponse(explanation, complexity, warnings) ==
  << "## AI Form Assistant (Tool-Enhanced)",
     "",
     explanation.s,
     "",
     "### Changes Made:",
     "- Updated form structure using AI validation tools",
     "- Current complexity: " \o ToString(complexity) \o " components",
     "- AI processing with tools: Complete",
     "" >>
  \o warningsSection(warnings)
  \o << "",
        "### Processing Method:",
        "- **Tool Calling**: Using generateText with validation and complexity analysis tools",
        "- **Self-Validation**: AI checks its own work using tools before responding",
        "- **Type Safety**: Full FormType compatibility with tool-assisted validation",
        "",
        "### Next Steps:",
        "- Review the changes in the preview",
        "- Click \"Accept\" to apply changes or \"Reject\" to revert",
        "- The form will auto-save once you accept the changes" >>

\* the template of the structured-output variant of the file
formatMarkdownResponseStructured(explanation, complexity, warnings) ==
  << "## AI Form Assistant (Structured Output)",
     "",
     explanation.s,
     "",
     "### Changes Made:",
     "- Updated form structure using AI with structured output",
     "- Current complexity: " \o ToString(complexity) \o " components",
     "- AI processing with tools: Complete",
     "" >>
  \o warningsSection(warnings)
  \o << "",
        "### Processing Method:",
        "- **Structured Output**: Using generateObject for reliable schema generation",
        "- **Tool Integration**: Schema validation and complexity analysis",
        "- **Type Safety**: Full FormType compatibility with Zod validation",
        "",
        "### Next Steps:",
        "- Review the changes in the preview",
        "- Click \"Accept\" to apply changes or \"Reject\" to revert",
        "- The form will auto-save once you accept the changes" >>

----------------------------------------------------------------------------
(* Applying the Response Formatter *)

MaxWarnings == 2

WarningTexts == {"Review the new field", "Duplicate keys found: k1"}

\* the warnings argument: left out, or a list of at most MaxWarnings strings
WarningsArguments ==
  {Undef} \cup UNION {{Arr(w) : w \in [1..n -> WarningTexts]} : n \in 0..MaxWarnings}

ExplanationArguments ==
  {Str(""), Str("Added an email field to your form."), Str("Here is the updated form.")}

ComplexityArguments == {0, 1, 50, 51, 101}

NotFormatted == [tool |-> NotRun, structured |-> NotRun]

InitFormat ==
  /\ \E e \in ExplanationArguments, c \in ComplexityArguments, w \in WarningsArguments :
       lib = [explanation |-> e, complexity |-> c, warnings |-> w,
              markdown |-> NotFormatted]
  /\ original = Null
  /\ candidate = Null
  /\ verdict = NotRun
  /\ variant = "generateText"
  /\ via = "service"
  /\ ui = UiIdle
  /\ pair = PairIdle
  /\ aiEnabled = FALSE
  /\ versionFound = FALSE
  /\ request = NoRequest
  /\ pc = "off"
  /\ calls = 0
  /\ aiOutput = NotRun
  /\ outcome = NotRun
  /\ http = NotRun

FormatUnchanged ==
  UNCHANGED <<original, candidate, verdict, variant, via, aiEnabled, versionFound, ui,
              request, pair, pc, calls, aiOutput, outcome, http>>

\* formatMarkdownResponse of the tool-enhanced template is called
FormatToolEnhanced ==
  /\ ~lib.markdown.tool.done
  /\ lib' = [lib EXCEPT !.markdown.tool =
               Ran(formatMarkdownResponse(lib.explanation, lib.complexity, lib.warnings))]
  /\ FormatUnchanged

\* formatMarkdownResponse of the structured-output template is called
FormatStructured ==
  /\ ~lib.markdown.structured.done
  /\ lib' = [lib EXCEPT !.markdown.structured =
               Ran(formatMarkdownResponseStructured(lib.explanation, lib.complexity,
                                                    lib.warnings))]
  /\ FormatUnchanged

NextFormat == FormatToolEnhanced \/ FormatStructured

SpecFormat == InitFormat /\ [][NextFormat]_vars

----------------------------------------------------------------------------
(* Generation Orchestrator, generateText variant: services/ai.ts *)

\* the gates passed: the generation call is made
ToInvoke == [invoke |-> TRUE]

\* a rejected promise / thrown Error with its message
Rejected(message) == [threw |-> TRUE, message |-> message]

TypeErrorMessage == "TypeError"
TooComplexMessage ==
  "Form is too complex for AI assistance. AI assistance is limited to forms with up to 50 components."
NotConfiguredMessage ==
  "AI assistance is not configured. Please set OPENAI_API_KEY environment variable."
UnexpectedMessage == "AI service encountered an unexpected error"

\* { ...currentSchema, components }
\* an assembly without the spread of currentSchema
componentsOnly(currentSchema, components) == Obj("components" :> components)

spreadWithComponents(currentSchema, components) ==
  Obj(("components" :> components)
      @@ (IF currentSchema.t = "obj" THEN currentSchema.f ELSE <<>>))

\* the components of the reply taken as they are, without the fallback
componentsOfReply(jsonResponse, current) == Get(jsonResponse, "components")

\* jsonResponse.components || request.currentSchema.components
componentsOrCurrent(jsonResponse, current) ==
  OrElse(Get(jsonResponse, "components"), Get(current, "components"))

\* lines 66-93: the schema, explanation and warnings read from the text
parseResponse(req, out) ==
  LET current == req.currentSchema
      jsonResponse == out.value
  IN CASE out.block = "none" ->
            [updatedSchema |-> current,
             explanation |-> out.text,
             warnings |-> Arr(<<"AI response did not contain valid schema updates">>)]
       [] out.block = "unparseable" \/ (out.block = "json" /\ IsNullish(jsonResponse)) ->
            [updatedSchema |-> current,
             explanation |-> out.text,
             warnings |-> Arr(<<"AI response parsing failed, no changes applied">>)]
       [] OTHER ->
            [updatedSchema |->
               spreadWithComponents(current, componentsOrCurrent(jsonResponse, current)),
             explanation |-> OrElse(Get(jsonResponse, "explanation"), out.text),
             warnings |-> OrElse(Get(jsonResponse, "warnings"), Arr(<<>>))]

\* lines 95-105
toolUsageOf(toolResults) ==
  LET line(result) ==
        LET summary == IF result.summary # "" THEN result.summary ELSE "completed"
        IN CASE result.toolName = "validateSchema" -> <<"Schema validation: " \o summary>>
             [] result.toolName = "reduceComplexity" -> <<"Complexity analysis: " \o summary>>
             [] OTHER -> <<>>
  IN ConcatSeq([i \in DOMAIN toolResults |-> line(toolResults[i])])

\* line 119
toolUsageSection(toolUsage) ==
  IF Len(toolUsage) > 0
  THEN <<"", "### Tool Usage:">> \o [i \in DOMAIN toolUsage |-> "- " \o toolUsage[i]]
  ELSE <<>>

validationWarning(issues) == "Validation issues: " \o Join(issues, ", ")

\* lines 107-124: from the final validation to the return
\* a finish that drops the verdict's issues instead of pushing the warning
generateTextFinishSilent(parsed, toolUsage, validation, complexity) ==
  IF validation.threw THEN Rejected(TypeErrorMessage)
  ELSE Ok([markdown |->
             formatMarkdownResponse(parsed.explanation, complexity.v, parsed.warnings)
             \o toolUsageSection(toolUsage),
           schema |-> parsed.updatedSchema])

generateTextFinish(parsed, toolUsage, validation, complexity) ==
  IF validation.threw THEN Rejected(TypeErrorMessage)
  ELSE IF ~validation.v.valid /\ Truthy(validation.v.issues)
  THEN IF parsed.warnings.t # "arr" THEN Rejected(TypeErrorMessage)
       ELSE Ok([markdown |->
                  formatMarkdownResponse(parsed.explanation, complexity.v,
                    Arr(Append(parsed.warnings.items,
                               validationWarning(validation.v.issues.items))))
                  \o toolUsageSection(toolUsage),
                schema |-> parsed.updatedSchema])
  ELSE Ok([markdown |->
             formatMarkdownResponse(parsed.explanation, complexity.v, parsed.warnings)
             \o toolUsageSection(toolUsage),
           schema |-> parsed.updatedSchema])

\* the validateAISolution call of an invocation: its arguments and result
Checked(originalSchema, newSchema, validation) ==
  [original |-> originalSchema, candidate |-> newSchema, verdict |-> Ran(validation)]

\* a finish that reports the complexity of the request's schema
generateTextValidatedOfRequest(req, parsed, toolUsage, validation) ==
  [result |-> generateTextFinish(parsed, toolUsage, validation,
                                 calculateSchemaComplexity(req.currentSchema)),
   checked |-> Checked(req.currentSchema, parsed.updatedSchema, validation)]

generateTextValidated(req, parsed, toolUsage, validation) ==
  [result |-> generateTextFinish(parsed, toolUsage, validation,
                                 calculateSchemaComplexity(parsed.updatedSchema)),
   checked |-> Checked(req.currentSchema, parsed.updatedSchema, validation)]

generateTextChecked(req, parsed, toolUsage) ==
  generateTextValidated(req, parsed, toolUsage,
                        validateAISolution(req.currentSchema, parsed.updatedSchema))

\* lines 66-124: what runs once the awaited generateText resolved with out
generateTextResolved(req, out) ==
  generateTextChecked(req, parseResponse(req, out), toolUsageOf(out.toolResults))

\* a catch block that wraps every error the same way
rethrownWrapped(error) == Rejected(UnexpectedMessage)

\* lines 125-134: what the catch block throws on

rethrown(error) ==
  IF error.isError THEN Rejected(error.message) ELSE Rejected(UnexpectedMessage)

\* the gates without the isAiEnabled() check
textGatesKeyUnchecked(tooBig, enabled) ==
  IF tooBig.threw THEN Rejected(TypeErrorMessage)
  ELSE IF tooBig.v THEN Rejected(TooComplexMessage)
  ELSE ToInvoke

textGates(tooBig, enabled) ==
  IF tooBig.threw THEN Rejected(TypeErrorMessage)
  ELSE IF tooBig.v THEN Rejected(TooComplexMessage)
  ELSE IF ~enabled THEN Rejected(NotConfiguredMessage)
  ELSE ToInvoke

\* lines 39-48: the gates
generateTextGates(req, enabled) ==
  textGates(isSchemaTooBigForAI(req.currentSchema), enabled)

----------------------------------------------------------------------------
(* Generation Orchestrator, generateObject variant: services/ai.ts *)

TooComplexWithCount(complexity) ==
  "Form is too complex for AI assistance (" \o ToString(complexity)
    \o " components). AI assistance is limited to forms with up to "
    \o ToString(MAX_SCHEMA_COMPLEXITY_FOR_AI) \o " components."

\* the component generateMockResponse appends; now is Date.now()
demoComponent(message, now) ==
  Obj(("type" :> Str("htmlelement")) @@ ("tag" :> Str("div"))
      @@ ("key" :> Str("ai_demo_" \o ToString(now)))
      @@ ("content" :> Str("AI Demo Component (Mock) Request: \"" \o message \o "\""))
      @@ ("input" :> Bool(FALSE))
      @@ ("label" :> Str("AI Generated Content (Demo)")))

mockMarkdown(req, complexity) ==
     << "## AI Assistant Response (Mock Mode)",
        "",
        "I understand you want to: **\"" \o req.message \o "\"**",
        "",
        "### What I would do:",
        "- Analyze your current form structure (" \o ToString(complexity) \o " components)",
        "- Generate appropriate FormIO components based on your request",
        "- Validate the new schema for compatibility",
        "- Preserve existing form data and structure",
        "",
        "### Mock Implementation:",
        "This is a development placeholder. To enable full AI functionality:",
        "",
        "1. Configure OPENAI_API_KEY environment variable",
        "2. The system will automatically switch to real AI assistance",
        "",
        "### Current Form Analysis:",
        "- **Complexity**: " \o ToString(complexity) \o " components",
        "- **AI Limit**: " \o ToString(MAX_SCHEMA_COMPLEXITY_FOR_AI) \o " components max",
        "- **Status**: " \o (IF complexity > MAX_SCHEMA_COMPLEXITY_FOR_AI
                             THEN "Too complex" ELSE "Suitable for AI") >>

mockOf(req, now, components, complexity) ==
  IF ~Iterable(components) THEN Rejected(TypeErrorMessage)
  ELSE Ok([markdown |-> mockMarkdown(req, complexity.v),
           schema |-> spreadWithComponents(req.currentSchema,
                        Arr(Elements(components) \o <<demoComponent(req.message, now)>>))])

\* lines 503-549; spreading components that are not iterable is a TypeError
generateMockResponse(req, now) ==
  mockOf(req, now, Get(req.currentSchema, "components"),
         calculateSchemaComplexity(req.currentSchema))

\* lines 441-451 and 487-498: the mock response under a fallback heading
fallbackResponse(mock, heading, detail, closing) ==
  IF mock.threw THEN mock
  ELSE Ok([markdown |-> <<"## AI Assistant (Fallback Mode)", "", heading, "">>
                          \o mock.v.markdown \o <<"", detail, "", closing>>,
           schema |-> mock.v.schema])

\* lines 483-499: the catch block
fallbackOnError(mock, error) ==
  fallbackResponse(mock,
    "**AI service with tools encountered an error, showing mock response:**",
    "**Error details:** " \o (IF error.isError THEN error.message ELSE "Unknown error"),
    "Please try again or contact support if the issue persists.")

\* lines 438-452: the mock response in place of a candidate that failed;
\* a throw while building it lands in the catch block
fallbackOnInvalid(mock, issues) ==
  IF mock.threw
  THEN fallbackOnError(mock, [isError |-> TRUE, message |-> TypeErrorMessage])
  ELSE fallbackResponse(mock,
         "**AI generated a solution that failed final validation, showing simpler fallback:**",
         "**Validation issues:** " \o Join(issues, ", "),
         "The AI tools are being refined to better handle complex form modifications.")

\* lines 455-476
toolEnhancedMarkdown(explanation, complexity, warnings) ==
  << "## AI Form Assistant (Tool-Enhanced)",
     "",
     explanation.s,
     "",
     "### Changes Made:",
     "- Updated form structure using AI validation tools",
     "- Current complexity: " \o ToString(complexity) \o " components",
     "- AI processing with tools: Complete",
     "" >>
  \o warningsSection(warnings)
  \o << "",
        "### Tools Used:",
        "- **Schema Validation**: Verified FormIO compatibility and component structure",
        "- **Complexity Analysis**: Ensured form stays within manageable limits",
        "",
        "### Next Steps:",
        "- Review the changes in the preview",
        "- Click \"Accept\" to apply changes or \"Reject\" to revert",
        "- The form will auto-save once you accept the changes" >>

\* formioSchemaResponseSchema: what generateObject resolves with
fitsResponseSchema(object) ==
  LET components == Get(object, "components")
      listOrAbsent(v) == v.t \in {"undef", "arr"}
  IN /\ object.t = "obj"
     /\ Get(object, "explanation").t = "str"
     /\ components.t = "arr"
     /\ \A i \in DOMAIN components.items :
          LET c == components.items[i]
          IN /\ c.t = "obj"
             /\ Get(c, "type").t = "str"
             /\ Get(c, "key").t = "str"
             /\ listOrAbsent(Get(c, "components"))
             /\ listOrAbsent(Get(c, "columns"))
             /\ listOrAbsent(Get(c, "rows"))
     /\ listOrAbsent(Get(object, "warnings"))

\* lines 436-481: from the final validation to the return
generateObjectFinish(object, updatedSchema, validation, complexity, mock) ==
  IF validation.threw
  THEN fallbackOnError(mock, [isError |-> TRUE, message |-> TypeErrorMessage])
  ELSE IF ~validation.v.valid /\ Truthy(validation.v.issues)
  THEN fallbackOnInvalid(mock, validation.v.issues.items)
  ELSE Ok([markdown |-> toolEnhancedMarkdown(Get(object, "explanation"), complexity.v,
                                             Get(object, "warnings")),
           schema |-> updatedSchema])

generateObjectValidated(req, object, updatedSchema, validation, mock) ==
  [result |-> generateObjectFinish(object, updatedSchema, validation,
                                   calculateSchemaComplexity(updatedSchema), mock),
   checked |-> Checked(req.currentSchema, updatedSchema, validation)]

generateObjectChecked(req, object, updatedSchema, mock) ==
  generateObjectValidated(req, object, updatedSchema,
                          validateAISolution(req.currentSchema, updatedSchema), mock)

\* lines 430-481: what runs once the awaited generateObject resolved
generateObjectResolved(req, object, now) ==
  generateObjectChecked(req, object,
                        spreadWithComponents(req.currentSchema, Get(object, "components")),
                        generateMockResponse(req, now))

objectGates(tooBig, complexity, enabled, mock) ==
  IF tooBig.threw THEN Rejected(TypeErrorMessage)
  ELSE IF tooBig.v THEN Rejected(TooComplexWithCount(complexity.v))
  ELSE IF ~enabled THEN mock
  ELSE ToInvoke

\* lines 350-361: the gates; without a key the mock response is returned
generateObjectGates(req, enabled, now) ==
  objectGates(isSchemaTooBigForAI(req.currentSchema),
              calculateSchemaComplexity(req.currentSchema),
              enabled, generateMockResponse(req, now))

----------------------------------------------------------------------------
(* The route's answer to POST /form-assist: routes/ai.ts lines 66-100 *)

Response(status, body) == [status |-> status, body |-> body]

previewIdOf(now, random) == "ai_preview_" \o ToString(now) \o "_" \o random

\* a route that answers without looking at its verdict
answerUnchecked(aiResponse, validation, now, random) ==
  Response(200,
    [markdown |-> aiResponse.markdown,
     schema |-> aiResponse.schema,
     warnings |-> Undef,
     previewId |-> Str(previewIdOf(now, random))])

\* a route that hands out a preview id whatever its verdict
answerWithPreview(aiResponse, validation, now, random) ==
  IF validation.threw THEN Response(500, [error |-> TypeErrorMessage])
  ELSE Response(200,
         [markdown |-> aiResponse.markdown
                         \o (IF validation.v.valid THEN <<>>
                             ELSE <<"", "**Warning**: This solution may have issues:">>
                                    \o [i \in DOMAIN Issues(validation) |->
                                          "- " \o Issues(validation)[i]]),
          schema |-> aiResponse.schema,
          warnings |-> validation.v.issues,
          previewId |-> Str(previewIdOf(now, random))])

\* lines 70-93: the answer to a returned response, given the verdict
answerFor(aiResponse, validation, now, random) ==
  IF validation.threw THEN Response(500, [error |-> TypeErrorMessage])
  ELSE IF ~validation.v.valid
  THEN Response(200,
         [markdown |-> aiResponse.markdown
                         \o <<"", "**Warning**: This solution may have issues:">>
                         \o [i \in DOMAIN Issues(validation) |->
                               "- " \o Issues(validation)[i]],
          schema |-> aiResponse.schema,
          warnings |-> validation.v.issues,
          previewId |-> Undef])
  ELSE Response(200,
         [markdown |-> aiResponse.markdown,
          schema |-> aiResponse.schema,
          warnings |-> Undef,
          previewId |-> Str(previewIdOf(now, random))])

\* lines 47-64: what the route decides before it calls generateAIAssistance
ToService == [call |-> TRUE]

NotConfiguredAnswer == "AI assistance is not configured. Please contact your administrator."

TooComplexAnswer(complexity) ==
  "Form is too complex for AI assistance. Current form has " \o ToString(complexity)
    \o " components, but AI assistance is limited to forms with up to "
    \o ToString(MAX_SCHEMA_COMPLEXITY_FOR_AI)
    \o " components. Please simplify your form or request assistance for specific sections."

\* an error thrown outside the route's try block reaches asyncHandler
asyncHandlerCaught == Response(500, [error |-> TypeErrorMessage])

\* z.string().min(1).max(1000)
MaxMessageLength == 1000

\* aiAssistRequestSchema: message is a string of 1 to 1000 characters,
\* currentSchema is z.any(), which accepts every value and a missing key
aiAssistRequestSchema(body) ==
  /\ Len(body.message) >= 1
  /\ Len(body.message) <= MaxMessageLength

\* validateBody(c, schema): the parsed body, or a validation error
validateBody(body) == IF aiAssistRequestSchema(body) THEN Ok(body) ELSE Thrown

\* the answer to a body that fails validation
validationFailed == Response(400, [error |-> "Validation failed"])

\* the gates with the version looked up before the configuration is checked
routeGatesVersionFirst(enabled, found, tooBig, complexity) ==
  IF ~found THEN Response(404, [error |-> "Version not found"])
  ELSE IF ~enabled THEN Response(503, [error |-> NotConfiguredAnswer])
  ELSE IF tooBig.threw THEN asyncHandlerCaught
  ELSE IF tooBig.v THEN Response(400, [error |-> TooComplexAnswer(complexity.v)])
  ELSE ToService

\* lines 47-64: the three gates, in the order of the code
routeGates(enabled, found, tooBig, complexity) ==
  IF ~enabled THEN Response(503, [error |-> NotConfiguredAnswer])
  ELSE IF ~found THEN Response(404, [error |-> "Version not found"])
  ELSE IF tooBig.threw THEN asyncHandlerCaught
  ELSE IF tooBig.v THEN Response(400, [error |-> TooComplexAnswer(complexity.v)])
  ELSE ToService

\* lines 45-64: validateBody, then the gates on the validated body
formAssistGates(req, enabled, found) ==
  IF validateBody(req).threw THEN validationFailed
  ELSE routeGates(enabled, found, isSchemaTooBigForAI(req.currentSchema),
                  calculateSchemaComplexity(req.currentSchema))

\* a route that retries nothing but answers a failure with status 200
formAssistResponseLenient(req, settled, now, random) ==
  IF settled.threw THEN Response(200, [error |-> settled.message])
  ELSE answerFor(settled.v, validateAISolution(req.currentSchema, settled.v.schema),
                 now, random)

\* lines 66-100: the answer once generateAIAssistance has settled
formAssistResponse(req, settled, now, random) ==
  IF settled.threw THEN Response(500, [error |-> settled.message])
  ELSE answerFor(settled.v, validateAISolution(req.currentSchema, settled.v.schema),
                 now, random)

\* a route that measures the schema whatever the validator said
complexityAlways(schema, validation) == calculateSchemaComplexity(schema)

\* line 126: validation.data ? calculateSchemaComplexity(validation.data) : 0
complexityOfData(schema, validation) ==
  IF Truthy(validation.data) THEN calculateSchemaComplexity(validation.data) ELSE Ok(0)

\* lines 125-135: the answer to a body that has a schema
validateSchemaAnswer(validation, complexity) ==
  IF complexity.threw THEN asyncHandlerCaught
  ELSE Response(200,
         [data |-> [valid |-> validation.valid,
                    errors |-> validation.errors,
                    complexity |-> complexity.v,
                    exceedsAILimit |-> complexity.v > MAX_SCHEMA_COMPLEXITY_FOR_AI]])

\* lines 119-135: POST /validate-schema, body the parsed JSON body
validateSchemaRoute(body) ==
  IF ~Truthy(Get(body, "schema")) THEN Response(400, [error |-> "Schema is required"])
  ELSE validateSchemaAnswer(
         validateFormioSchema(Get(body, "schema")),
         complexityOfData(Get(body, "schema"), validateFormioSchema(Get(body, "schema"))))

----------------------------------------------------------------------------
(* Requests and what the generation capability can answer *)

MaxCurrentNodes == 1
MaxReturnedNodes == 1
MaxClock == 1

Variants == {"generateText", "generateObject"}

\* generateAIAssistance is called by the route, or by a caller of the service
Callers == {"route", "service"}

\* Date.now()
Clock == 1..MaxClock

\* Math.random().toString(36).substr(2, 9)
Randoms == {"k3x9w2q1z"}

RootedSchema(components) ==
  Obj(("title" :> Str("Contact")) @@ ("type" :> Str("form"))
      @@ ("display" :> Str("form")) @@ ("components" :> Arr(components)))

CurrentSchemas ==
  {RootedSchema(c) : c \in Forests(MaxCurrentNodes)}
    \cup { Null, Num(5), Obj(<<>>),
           Obj("components" :> Num(5)),
           Obj("components" :> Str("ab")),
           Obj("components" :> Arr(<<Null>>)),
           Obj(("title" :> Str("Legacy")) @@ ("type" :> Str("other"))
               @@ ("components" :> Arr(<<Leaf("k1")>>))),
           RootedSchema(<<Leaf("name")>>),
           RootedSchema(<<Leaf("k1"), Leaf("k1")>>),
           RootedSchema(<<Nest("k1", "columns", <<Leaf("k2")>>),
                          Nest("k3", "rows", <<Leaf("k4")>>)>>),
           Flat(2), Flat(10), Flat(50), Flat(51), Panel(49), Panel(50) }

RECURSIVE Repeat(_, _)
\* the string of n copies of char, by halves
Repeat(char, n) ==
  IF n = 0 THEN ""
  ELSE IF n = 1 THEN char
  ELSE Repeat(char, n \div 2) \o Repeat(char, n - n \div 2)

\* messages at and beyond the two length limits
EdgeMessages == {"", Repeat("a", MaxMessageLength), Repeat("a", MaxMessageLength + 1)}

\* bodies whose currentSchema key is missing or is no object
EdgeBodies ==
  {[message |-> m, currentSchema |-> c] :
     m \in EdgeMessages, c \in {RootedSchema(<<Leaf("name")>>), Num(5)}}
    \cup {[message |-> "add an email field", currentSchema |-> Undef]}

Requests ==
  {[message |-> "add an email field", currentSchema |-> c] : c \in CurrentSchemas}
    \cup EdgeBodies

Reply(components, explanation, warnings) ==
  Obj(Prop("components", components) @@ Prop("explanation", explanation)
      @@ Prop("warnings", warnings))

ComponentsValues ==
  { Undef, Null, Num(5), Str("ab"), Obj(<<>>), Arr(<<>>), Arr(<<Null>>),
    Arr(<<Leaf("name"), Leaf("email")>>),
    Arr(<<Leaf("k1"), Leaf("k1")>>),
    Arr(<<Nest("k1", "columns", <<Leaf("k2")>>), Nest("k2", "rows", <<Leaf("k3")>>)>>),
    Arr(<<Obj(("type" :> Str("panel")) @@ ("key" :> Str("k1"))
              @@ ("components" :> Num(5)))>>),
    Arr(FlatFields(10)), Arr(FlatFields(50)), Arr(FlatFields(101)) }

ExplanationValues == {Undef, Str("Added an email field to your form.")}

WarningsValues == {Undef, Arr(<<>>), Arr(<<"Review the new field">>), Num(5)}

\* what JSON.parse can yield for the fenced block of the text
JsonReplies ==
  {Null, Num(5)}
    \cup {Reply(Arr(c), Str("Updated the form."), Undef) : c \in Forests(MaxReturnedNodes)}
    \cup {Reply(c, e, w) : c \in ComponentsValues, e \in ExplanationValues, w \in WarningsValues}

ToolRuns ==
  { <<>>,
    <<[toolName |-> "validateSchema", summary |-> "Schema is valid with 2 components"],
      [toolName |-> "reduceComplexity", summary |-> ""],
      [toolName |-> "other", summary |-> ""]>> }

TextOutput(block, value, toolResults) ==
  [block |-> block, value |-> value, text |-> Str("Here is the updated form."),
   toolResults |-> toolResults]

\* what generateText can resolve with: text without a fenced json block,
\* with a block that does not parse, or with a block that parses
TextOutputs ==
  {TextOutput("none", Undef, t) : t \in ToolRuns}
    \cup {TextOutput("unparseable", Undef, <<>>)}
    \cup {TextOutput("json", v, <<>>) : v \in JsonReplies}
    \cup {TextOutput("json", Reply(Arr(<<Leaf("name"), Leaf("email")>>),
                                   Str("Added an email field to your form."), Undef), t) :
            t \in ToolRuns}

\* what generateObject can resolve with: objects of the response schema
ObjectOutputs == {v \in JsonReplies : fitsResponseSchema(v)}

\* what the awaited call can reject with: an Error, or a thrown non-Error
\* what the awaited call can reject with: an Error or any other thrown value;
\* cause tells why the capability rejected (the catch block does not see it)
Errors ==
  { [isError |-> TRUE, message |-> "Rate limit exceeded", cause |-> "failure"],
    [isError |-> FALSE, message |-> "", cause |-> "failure"],
    [isError |-> TRUE, message |-> "This operation was aborted", cause |-> "cancelled"],
    [isError |-> TRUE, message |-> "The operation timed out", cause |-> "timeout"],
    [isError |-> FALSE, message |-> "", cause |-> "cancelled"] }

----------------------------------------------------------------------------
(* One generateAIAssistance invocation and the route's answer *)

InitGen ==
  /\ original = Null
  /\ candidate = Null
  /\ verdict = NotRun
  /\ variant \in Variants
  /\ via \in Callers
  /\ lib = LibIdle
  /\ ui = UiIdle
  /\ pair = PairIdle
  /\ aiEnabled \in BOOLEAN
  /\ versionFound \in (IF via = "route" THEN BOOLEAN ELSE {FALSE})
  /\ request \in Requests
  /\ pc = IF via = "route" THEN "received" ELSE "ready"
  /\ calls = 0
  /\ aiOutput = NotRun
  /\ outcome = NotRun
  /\ http = NotRun

\* the route decided: generateAIAssistance is called, or the request is answered
Routed(gate) ==
  IF gate = ToService
  THEN /\ pc' = "ready"
       /\ http' = http
  ELSE /\ pc' = "responded"
       /\ http' = Ran(gate)

\* POST /form-assist arrives: the route runs up to its call of the service
RouteReceive ==
  /\ pc = "received"
  /\ Routed(formAssistGates(request, aiEnabled, versionFound))
  /\ UNCHANGED <<original, candidate, verdict, variant, via, aiEnabled, versionFound, ui, request, pair, lib, calls,
                 aiOutput, outcome>>

\* the gates decided: the generation call is made, or the invocation settles
Gated(gate) ==
  IF gate = ToInvoke
  THEN /\ pc' = "awaiting"
       /\ calls' = calls + 1
       /\ outcome' = outcome
  ELSE /\ pc' = "settled"
       /\ calls' = calls
       /\ outcome' = Ran(gate)

\* generateAIAssistance is called: it runs up to its await
Invoke ==
  /\ pc = "ready"
  /\ \E now \in Clock :
       Gated(IF variant = "generateText"
             THEN generateTextGates(request, aiEnabled)
             ELSE generateObjectGates(request, aiEnabled, now))
  /\ UNCHANGED <<original, candidate, verdict, variant, via, aiEnabled, versionFound, ui, request, pair, lib, aiOutput, http>>

\* the invocation settles after the generation call resolved with out
Resolved(out, after) ==
  /\ aiOutput' = Ran(Ok(out))
  /\ original' = after.checked.original
  /\ candidate' = after.checked.candidate
  /\ verdict' = after.checked.verdict
  /\ outcome' = Ran(after.result)

\* the awaited generation call resolves
CapabilityReturns ==
  /\ pc = "awaiting"
  /\ \E out \in (IF variant = "generateText" THEN TextOutputs ELSE ObjectOutputs),
        now \in Clock :
       Resolved(out, IF variant = "generateText"
                     THEN generateTextResolved(request, out)
                     ELSE generateObjectResolved(request, out, now))
  /\ pc' = "settled"
  /\ UNCHANGED <<variant, via, aiEnabled, versionFound, ui, request, pair, lib, calls, http>>

\* the awaited generation call rejects
CapabilityThrows ==
  /\ pc = "awaiting"
  /\ \E error \in Errors, now \in Clock :
       /\ aiOutput' = Ran([threw |-> TRUE, error |-> error])
       /\ outcome' = Ran(IF variant = "generateText" THEN rethrown(error)
                         ELSE fallbackOnError(generateMockResponse(request, now), error))
  /\ pc' = "settled"
  /\ UNCHANGED <<original, candidate, verdict, variant, via, aiEnabled, versionFound, ui, request, pair, lib, calls, http>>

\* the route answers once generateAIAssistance has settled
RouteRespond ==
  /\ via = "route"
  /\ pc = "settled"
  /\ \E now \in Clock, random \in Randoms :
       http' = Ran(formAssistResponse(request, outcome.result, now, random))
  /\ pc' = "responded"
  /\ UNCHANGED <<original, candidate, verdict, variant, via, aiEnabled, versionFound, ui, request, pair, lib, calls, aiOutput,
                 outcome>>

Next == RouteReceive \/ Invoke \/ CapabilityReturns \/ CapabilityThrows \/ RouteRespond

Spec == InitGen /\ [][Next]_vars

----------------------------------------------------------------------------
(* Applying the Complexity Accountant and the Schema Validator *)

\* values a type or display field can carry
FieldValues ==
  { Undef, Null, Num(0), Num(5), Bool(FALSE), Bool(TRUE), Str(""), Str("form"),
    Str("wizard"), Str("pdf"), Str("other"), Arr(<<>>), Obj(<<>>) }

\* schemas with every type and display value
TypedSchemas ==
  {Obj(Prop("type", type) @@ Prop("display", display)
       @@ ("components" :> Arr(components))) :
     type \in FieldValues, display \in FieldValues,
     components \in {<<>>, <<Leaf("k1")>>}}

LibInputs == SmallCandidates \cup EdgeSchemas \cup TypedSchemas

\* the root components of a schema moved into one new container component
WrapAll(schema, key, nesting) ==
  Obj(("components" :> Arr(<<Nest(key, nesting, Get(schema, "components").items)>>))
      @@ schema.f)

InitLib ==
  /\ candidate \in LibInputs
  /\ original = Null
  /\ verdict = NotRun
  /\ variant = "generateText"
  /\ via = "service"
  /\ lib = LibIdle
  /\ ui = UiIdle
  /\ pair = PairIdle
  /\ aiEnabled = FALSE
  /\ versionFound = FALSE
  /\ request = NoRequest
  /\ pc = "off"
  /\ calls = 0
  /\ aiOutput = NotRun
  /\ outcome = NotRun
  /\ http = NotRun

LibUnchanged ==
  UNCHANGED <<original, candidate, verdict, variant, via, aiEnabled, versionFound, ui, request, pair, pc, calls,
              aiOutput, outcome, http>>

\* calculateSchemaComplexity(candidate) is called
Measure ==
  /\ ~lib.complexity.done
  /\ lib' = [lib EXCEPT !.complexity = Ran(calculateSchemaComplexity(candidate))]
  /\ LibUnchanged

\* calculateSchemaComplexity is called on the candidate with its root
\* components wrapped into one container
MeasureWrapped ==
  /\ ~lib.wrapped.done
  /\ candidate.t = "obj"
  /\ Get(candidate, "components").t = "arr"
  /\ \E nesting \in Nestings :
       lib' = [lib EXCEPT !.wrapped =
                 Ran(calculateSchemaComplexity(WrapAll(candidate, "wrapper", nesting)))]
  /\ LibUnchanged

\* the client calls AiService.calculateSchemaComplexity(candidate)
MeasureClient ==
  /\ ~lib.client.done
  /\ lib' = [lib EXCEPT !.client = Ran(aiServiceCalculateSchemaComplexity(candidate))]
  /\ LibUnchanged

\* validateFormioSchema(candidate) is called
Validate ==
  /\ ~lib.validation.done
  /\ lib' = [lib EXCEPT !.validation = Ran(validateFormioSchema(candidate))]
  /\ LibUnchanged

\* validateFormioSchema is called on the data of a valid result
Revalidate ==
  /\ lib.validation.done
  /\ lib.validation.result.valid
  /\ ~lib.revalidation.done
  /\ lib' = [lib EXCEPT !.revalidation =
               Ran(validateFormioSchema(lib.validation.result.data))]
  /\ LibUnchanged

\* the bodies posted with schema: the candidate under the schema key, with
\* or without other keys, and a body that has no schema key
BodiesOf(schema) ==
  { Obj(Prop("schema", schema)),
    Obj(Prop("schema", schema) @@ ("note" :> Str("draft"))),
    Obj(<<>>) }

\* POST /validate-schema is served
PostValidateSchema ==
  /\ ~lib.posted.done
  /\ \E body \in BodiesOf(candidate) :
       lib' = [lib EXCEPT !.posted = Ran([body |-> body, answer |-> validateSchemaRoute(body)])]
  /\ LibUnchanged

NextLib ==
  Measure \/ MeasureWrapped \/ MeasureClient \/ Validate \/ Revalidate \/ PostValidateSchema

SpecLib == InitLib /\ [][NextLib]_vars

----------------------------------------------------------------------------
(* The client: AiAssistantDialog and useAiFormAssist.  The dialog exists   *)
(* in two versions: one keeps response, error and isLoading in the hook    *)
(* useAiFormAssist ("hooks"), one keeps them in its own state ("service"). *)
(* Both run the same steps around the awaited request.                     *)

\* requests of the dialog in flight at once, getLimits calls in flight at once
MaxPending == 1
MaxLoads == 1

Dialogs == {"hooks", "service"}

\* React state that is null, or holds a value
None == [some |-> FALSE]
Some(v) == [some |-> TRUE, v |-> v]

\* the text of the textarea, character by character
Texts == {<<>>, <<" ", " ">>, <<" ", "h", "i", " ">>}

RECURSIVE TrimStart(_)
TrimStart(text) ==
  IF text = <<>> THEN <<>>
  ELSE IF Head(text) = " " THEN TrimStart(Tail(text)) ELSE text

RECURSIVE TrimEnd(_)
TrimEnd(text) ==
  IF text = <<>> THEN <<>>
  ELSE IF text[Len(text)] = " " THEN TrimEnd(SubSeq(text, 1, Len(text) - 1)) ELSE text

\* message.trim()
Trim(text) == TrimEnd(TrimStart(text))

\* the schemas the editor hands to the dialog as currentSchema
DialogSchemas == {Flat(50), Flat(51)}

\* GET /limits, routes/ai.ts 149-159
limitsOf(enabled) == [maxComplexity |-> MAX_SCHEMA_COMPLEXITY_FOR_AI, aiEnabled |-> enabled]

\* what POST /form-assist answers with status 200: data
Suggestions ==
  { [markdown |-> <<"## AI Form Assistant">>,
     schema |-> RootedSchema(<<Leaf("name"), Leaf("email")>>),
     previewId |-> Str("ai_preview_1_k3x9w2q1z"), warnings |-> Undef],
    [markdown |-> <<"## AI Form Assistant", "", "**Warning**: This solution may have issues:">>,
     schema |-> RootedSchema(<<Leaf("k1"), Leaf("k1")>>),
     previewId |-> Undef, warnings |-> Arr(<<"Duplicate keys found: k1">>)],
    [markdown |-> <<"## AI Form Assistant">>, schema |-> Null,
     previewId |-> Undef, warnings |-> Undef] }

\* what the awaited request rejects with: AiService.request throws
\* new Error(error.error || HTTP status), and fetch throws a TypeError
Rejections == { [isError |-> TRUE, message |-> "Version not found"] }

\* line 26: err instanceof Error ? err.message : 'Failed to get AI assistance'
errorMessageOf(err) == IF err.isError THEN err.message ELSE "Failed to get AI assistance"

\* checkComplexity(): valid with complexity 0 while the limits are not loaded
checkComplexity(limits, schema) ==
  IF ~limits.some THEN Ok([isValid |-> TRUE, complexity |-> 0])
  ELSE LET complexity == aiServiceCalculateSchemaComplexity(schema)
       IN IF complexity.threw THEN Thrown
          ELSE Ok([isValid |-> complexity.v <= limits.v.maxComplexity,
                   complexity |-> complexity.v])

\* a handleSubmit that checks the message only
submitGatesMessageOnly(message, limits, schema) == Trim(message) # <<>>

\* handleSubmit up to its try block: TRUE when the request is to be sent
submitGates(message, limits, schema) ==
  /\ Trim(message) # <<>>
  /\ limits.some
  /\ limits.v.aiEnabled
  /\ ~checkComplexity(limits, schema).threw
  /\ checkComplexity(limits, schema).v.isValid

\* the textarea's disabled attribute
textareaDisabled(state) ==
  \/ state.isLoading
  \/ ~state.limits.some
  \/ ~state.limits.v.aiEnabled
  \/ checkComplexity(state.limits, state.currentSchema).threw
  \/ ~checkComplexity(state.limits, state.currentSchema).v.isValid

InitDialog ==
  /\ original = Null
  /\ candidate = Null
  /\ verdict = NotRun
  /\ variant = "generateText"
  /\ via = "route"
  /\ lib = LibIdle
  /\ pair = PairIdle
  /\ aiEnabled \in BOOLEAN
  /\ versionFound = FALSE
  /\ request = NoRequest
  /\ pc = "off"
  /\ calls = 0
  /\ aiOutput = NotRun
  /\ outcome = NotRun
  /\ http = NotRun
  /\ \E dialog \in Dialogs, schema \in DialogSchemas :
       ui = [mounted |-> TRUE, dialog |-> dialog, isOpen |-> FALSE,
             currentSchema |-> schema, message |-> <<>>, limits |-> None,
             loading |-> 0,
             response |-> None, error |-> None, isLoading |-> FALSE,
             flights |-> <<>>, latest |-> None,
             onAcceptCalls |-> FALSE, applied |-> None]

DialogUnchanged ==
  UNCHANGED <<original, candidate, verdict, variant, via, versionFound, request, pair, lib,
              pc, calls, aiOutput, outcome, http>>

\* the parent opens the dialog: the effect of lines 36-42 calls loadLimits
ParentOpens ==
  /\ ~ui.isOpen
  /\ ui.loading < MaxLoads
  /\ ui' = [ui EXCEPT !.isOpen = TRUE, !.loading = @ + 1]
  /\ aiEnabled' = aiEnabled
  /\ DialogUnchanged

\* the parent closes the dialog (isOpen is its prop)
ParentCloses ==
  /\ ui.isOpen
  /\ ui' = [ui EXCEPT !.isOpen = FALSE]
  /\ aiEnabled' = aiEnabled
  /\ DialogUnchanged

\* the parent hands another currentSchema to the dialog
ParentEdits ==
  /\ \E schema \in DialogSchemas \ {ui.currentSchema} :
       ui' = [ui EXCEPT !.currentSchema = schema]
  /\ aiEnabled' = aiEnabled
  /\ DialogUnchanged

\* the server's OPENAI_API_KEY is set or unset between two loads
ConfigChanges ==
  /\ aiEnabled' = ~aiEnabled
  /\ ui' = ui
  /\ DialogUnchanged

\* getLimits() resolves
LimitsArrive ==
  /\ ui.loading > 0
  /\ ui' = [ui EXCEPT
              !.loading = @ - 1,
              !.limits = Some(limitsOf(aiEnabled)),
              !.error = IF ui.dialog = "service" /\ ~aiEnabled
                        THEN Some("AI assistance is not configured. Please contact your administrator.")
                        ELSE @]
  /\ aiEnabled' = aiEnabled
  /\ DialogUnchanged

\* getLimits() rejects
LimitsFail ==
  /\ ui.loading > 0
  /\ ui' = [ui EXCEPT
              !.loading = @ - 1,
              !.error = IF ui.dialog = "service"
                        THEN Some("Failed to load AI configuration") ELSE @]
  /\ aiEnabled' = aiEnabled
  /\ DialogUnchanged

\* the form is rendered: the dialog is open and shows no response
FormShown == ui.isOpen /\ ~ui.response.some

\* the user types into the textarea
Type ==
  /\ FormShown
  /\ ~textareaDisabled(ui)
  /\ \E text \in Texts \ {ui.message} :
       ui' = [ui EXCEPT !.message = text]
  /\ aiEnabled' = aiEnabled
  /\ DialogUnchanged

\* requestAssistance up to its await: lines 18-23 of the hook; the request
\* joins those in flight as the most recently issued one
requested(state, req) ==
  [state EXCEPT
     !.isLoading = TRUE,
     !.error = None,
     !.response = None,
     !.flights = Append([i \in DOMAIN @ |-> [@[i] EXCEPT !.newest = FALSE]],
                        [request |-> req, newest |-> TRUE]),
     !.latest = None]

\* flight i has settled: it leaves those in flight, and its outcome is
\* remembered when it was the most recently issued request
landed(state, i, result) ==
  [state EXCEPT
     !.flights = SubSeq(@, 1, i - 1) \o SubSeq(@, i + 1, Len(@)),
     !.latest = IF state.flights[i].newest THEN Some(result) ELSE @]

\* the form's onSubmit: handleSubmit up to the await of the request
Submit ==
  /\ FormShown
  /\ Len(ui.flights) < MaxPending
  /\ ui' = IF submitGates(ui.message, ui.limits, ui.currentSchema)
           THEN requested(ui, [message |-> Trim(ui.message),
                               currentSchema |-> ui.currentSchema])
           ELSE ui
  /\ aiEnabled' = aiEnabled
  /\ DialogUnchanged

\* the awaited request of flight i resolves: setResponse(result), finally
RequestResolves(i) ==
  /\ i \in DOMAIN ui.flights
  /\ \E result \in Suggestions :
       ui' = [landed(ui, i, [ok |-> TRUE, value |-> result]) EXCEPT
                !.response = Some(result),
                !.isLoading = FALSE]
  /\ aiEnabled' = aiEnabled
  /\ DialogUnchanged

\* the awaited request of flight i rejects: setError(errorMessage), finally
RequestRejects(i) ==
  /\ i \in DOMAIN ui.flights
  /\ \E err \in Rejections :
       ui' = [landed(ui, i, [ok |-> FALSE, value |-> errorMessageOf(err)]) EXCEPT
                !.error = Some(errorMessageOf(err)),
                !.isLoading = FALSE]
  /\ aiEnabled' = aiEnabled
  /\ DialogUnchanged

\* handleClose: the message is reset; the service dialog also resets its
\* response and error; onClose() is called
closed(state) ==
  IF state.dialog = "service"
  THEN [state EXCEPT !.message = <<>>, !.response = None, !.error = None]
  ELSE [state EXCEPT !.message = <<>>]

\* the response panel is rendered
ResponseShown == ui.isOpen /\ ui.response.some

\* Accept & Apply: handleAccept; onAcceptCalls flips at each call of onAccept
\* and applied is the schema the last call handed over
Accept ==
  /\ ResponseShown
  /\ ui' = IF Truthy(ui.response.v.schema)
           THEN [closed(ui) EXCEPT
                   !.onAcceptCalls = ~@,
                   !.applied = Some(ui.response.v.schema)]
           ELSE ui
  /\ aiEnabled' = aiEnabled
  /\ DialogUnchanged

\* a Reject button that hands the suggestion to onAccept
RejectApplies ==
  /\ ResponseShown
  /\ ui' = [ui EXCEPT !.onAcceptCalls = ~@, !.applied = Some(ui.response.v.schema)]
  /\ aiEnabled' = aiEnabled
  /\ DialogUnchanged

\* Reject: handleReject
Reject ==
  /\ ResponseShown
  /\ ui' = IF ui.dialog = "service"
           THEN [ui EXCEPT !.response = None]
           ELSE ui
  /\ aiEnabled' = aiEnabled
  /\ DialogUnchanged

\* Try Again: handleTryAgain, or setResponse(null) in the service dialog
TryAgain ==
  /\ ResponseShown
  /\ ui' = IF ui.dialog = "service"
           THEN [ui EXCEPT !.response = None]
           ELSE [ui EXCEPT !.response = None, !.error = None, !.message = <<>>]
  /\ aiEnabled' = aiEnabled
  /\ DialogUnchanged

\* the X of the header or Cancel: handleClose
Close ==
  /\ ui.isOpen
  /\ ui' = closed(ui)
  /\ aiEnabled' = aiEnabled
  /\ DialogUnchanged

NextDialog ==
  \/ ParentOpens \/ ParentCloses \/ ParentEdits \/ ConfigChanges
  \/ LimitsArrive \/ LimitsFail
  \/ Type \/ Submit
  \/ \E i \in 1..MaxPending : RequestResolves(i) \/ RequestRejects(i)
  \/ Accept \/ Reject \/ TryAgain \/ Close

SpecDialog == InitDialog /\ [][NextDialog]_vars

----------------------------------------------------------------------------
(* useAiFormAssist on its own: requestAssistance and clearResponse called  *)
(* by any component, also while earlier requests are still in flight.      *)

\* requestAssistance calls in flight at once
MaxInFlight == 3

InitHook ==
  /\ original = Null
  /\ candidate = Null
  /\ verdict = NotRun
  /\ variant = "generateText"
  /\ via = "route"
  /\ lib = LibIdle
  /\ pair = PairIdle
  /\ aiEnabled = TRUE
  /\ versionFound = FALSE
  /\ request = NoRequest
  /\ pc = "off"
  /\ calls = 0
  /\ aiOutput = NotRun
  /\ outcome = NotRun
  /\ http = NotRun
  /\ ui = [mounted |-> TRUE, response |-> None, error |-> None, isLoading |-> FALSE,
           flights |-> <<>>, latest |-> None]

HookUnchanged ==
  UNCHANGED <<original, candidate, verdict, variant, via, aiEnabled, versionFound, request,
              pair, lib, pc, calls, aiOutput, outcome, http>>

\* requestAssistance(request) is called
HookRequest ==
  /\ Len(ui.flights) < MaxInFlight
  /\ \E schema \in DialogSchemas :
       ui' = requested(ui, [message |-> <<"h", "i">>, currentSchema |-> schema])
  /\ HookUnchanged

\* the awaited request of call i resolves
HookResolves(i) ==
  /\ i \in DOMAIN ui.flights
  /\ \E result \in Suggestions :
       ui' = [landed(ui, i, [ok |-> TRUE, value |-> result]) EXCEPT
                !.response = Some(result),
                !.isLoading = FALSE]
  /\ HookUnchanged

\* the awaited request of call i rejects
HookRejects(i) ==
  /\ i \in DOMAIN ui.flights
  /\ \E err \in Rejections :
       ui' = [landed(ui, i, [ok |-> FALSE, value |-> errorMessageOf(err)]) EXCEPT
                !.error = Some(errorMessageOf(err)),
                !.isLoading = FALSE]
  /\ HookUnchanged

\* clearResponse() is called
HookClear ==
  /\ ui.response.some \/ ui.error.some
  /\ ui' = [ui EXCEPT !.response = None, !.error = None, !.latest = None]
  /\ HookUnchanged

NextHook ==
  \/ HookRequest
  \/ \E i \in 1..MaxInFlight : HookResolves(i) \/ HookRejects(i)
  \/ HookClear

SpecHook == InitHook /\ [][NextHook]_vars

----------------------------------------------------------------------------
(* Two overlapping generateAIAssistance invocations.  Each invocation has  *)
(* its own request parameter and locals; isAiEnabled() and the generation  *)
(* capability are what they have in common.                                *)

Invocations == {1, 2}

PairSchemas ==
  { RootedSchema(<<Leaf("name")>>), RootedSchema(<<Leaf("k1"), Leaf("k2")>>),
    Flat(51), Null }

PairRequests ==
  {[message |-> "add an email field", currentSchema |-> c] : c \in PairSchemas}

PairReplies ==
  { Reply(Arr(<<Leaf("name"), Leaf("email")>>), Str("Added an email field to your form."),
          Undef),
    Reply(Arr(<<Leaf("k1"), Leaf("k1")>>), Str("Updated the form."),
          Arr(<<"Review the new field">>)) }

PairOutputs ==
  IF variant = "generateText"
  THEN {TextOutput("none", Undef, <<>>)} \cup {TextOutput("json", v, <<>>) : v \in PairReplies}
  ELSE PairReplies

\* one request slot read by every invocation
sharedRequest(invocations, i) == invocations[1].request

\* the request parameter of invocation i
ownRequest(invocations, i) == invocations[i].request

Fresh(req) == [request |-> req, pc |-> "ready", aiOutput |-> NotRun, outcome |-> NotRun]

InitPair ==
  /\ original = Null
  /\ candidate = Null
  /\ verdict = NotRun
  /\ variant \in Variants
  /\ via = "service"
  /\ lib = LibIdle
  /\ ui = UiIdle
  /\ \E first \in PairRequests, second \in PairRequests :
       pair = [inv |-> <<Fresh(first), Fresh(second)>>, log |-> <<>>]
  /\ aiEnabled \in BOOLEAN
  /\ versionFound = FALSE
  /\ request = NoRequest
  /\ pc = "off"
  /\ calls = 0
  /\ aiOutput = NotRun
  /\ outcome = NotRun
  /\ http = NotRun

PairUnchanged ==
  UNCHANGED <<original, candidate, verdict, variant, via, aiEnabled, versionFound, ui, request, lib, pc,
              aiOutput, outcome, http>>

\* invocation i moves on: its record changes and the event is logged
Moved(i, event, record) ==
  pair' = [inv |-> [pair.inv EXCEPT ![i] = record],
           log |-> Append(pair.log, <<i, event>>)]

PairGated(i, gate) ==
  IF gate = ToInvoke
  THEN /\ Moved(i, "invoked", [pair.inv[i] EXCEPT !.pc = "awaiting"])
       /\ calls' = calls + 1
  ELSE /\ Moved(i, "settled", [pair.inv[i] EXCEPT !.pc = "settled", !.outcome = Ran(gate)])
       /\ calls' = calls

\* invocation i is called and runs up to its await
PairInvoke(i) ==
  /\ pair.inv[i].pc = "ready"
  /\ \E now \in Clock :
       PairGated(i, IF variant = "generateText"
                    THEN generateTextGates(ownRequest(pair.inv, i), aiEnabled)
                    ELSE generateObjectGates(ownRequest(pair.inv, i), aiEnabled, now))
  /\ PairUnchanged

\* the generation call of invocation i resolves
PairReturns(i) ==
  /\ pair.inv[i].pc = "awaiting"
  /\ \E out \in PairOutputs, now \in Clock :
       Moved(i, "settled",
             [pair.inv[i] EXCEPT
                !.pc = "settled",
                !.aiOutput = Ran(Ok(out)),
                !.outcome =
                   Ran(IF variant = "generateText"
                       THEN generateTextResolved(ownRequest(pair.inv, i), out).result
                       ELSE generateObjectResolved(ownRequest(pair.inv, i), out, now).result)])
  /\ calls' = calls
  /\ PairUnchanged

\* the generation call of invocation i rejects
PairThrows(i) ==
  /\ pair.inv[i].pc = "awaiting"
  /\ \E error \in Errors, now \in Clock :
       Moved(i, "settled",
             [pair.inv[i] EXCEPT
                !.pc = "settled",
                !.aiOutput = Ran([threw |-> TRUE, error |-> error]),
                !.outcome =
                   Ran(IF variant = "generateText" THEN rethrown(error)
                       ELSE fallbackOnError(
                              generateMockResponse(ownRequest(pair.inv, i), now), error))])
  /\ calls' = calls
  /\ PairUnchanged

NextPair == \E i \in Invocations : PairInvoke(i) \/ PairReturns(i) \/ PairThrows(i)

SpecPair == InitPair /\ [][NextPair]_vars

----------------------------------------------------------------------------
(* What the properties speak of, stated apart from the code's traversal *)

RECURSIVE NodesIn(_)
RECURSIVE NodesAt(_)

\* the component objects held by a container value, in document order
NodesIn(list) ==
  IF list.t # "arr" THEN <<>>
  ELSE ConcatSeq([i \in DOMAIN list.items |-> NodesAt(list.items[i])])

\* a component object and every component below it
NodesAt(component) ==
  IF component.t # "obj" THEN <<>>
  ELSE
    LET columns == Get(component, "columns")
        rows == Get(component, "rows")
        below(holders) ==
          IF holders.t # "arr" THEN <<>>
          ELSE ConcatSeq([j \in DOMAIN holders.items |->
                            NodesIn(Get(holders.items[j], "components"))])
    IN <<component>>
         \o NodesIn(Get(component, "components"))
         \o below(columns)
         \o (IF rows.t # "arr" THEN <<>>
             ELSE ConcatSeq([j \in DOMAIN rows.items |-> below(rows.items[j])]))

NodesOfSchema(schema) == NodesIn(Get(schema, "components"))

\* the non-empty keys of a schema's components, in document order
KeysOfSchema(schema) ==
  LET nodes == NodesOfSchema(schema)
      keyed == SelectSeq(nodes, LAMBDA c : Get(c, "key").t = "str" /\ Get(c, "key").s # "")
  IN [i \in DOMAIN keyed |-> Get(keyed[i], "key").s]

\* two components at different positions carry the same key
HasDuplicateKey(schema) ==
  LET keys == KeysOfSchema(schema)
  IN \E i, j \in DOMAIN keys : i < j /\ keys[i] = keys[j]

\* every later occurrence of a key, in document order
LaterOccurrences(schema) ==
  LET keys == KeysOfSchema(schema)
      at == SelectSeq([i \in DOMAIN keys |-> i],
                      LAMBDA i : \E j \in 1..(i - 1) : keys[j] = keys[i])
  IN [n \in DOMAIN at |-> keys[at[n]]]

\* the keys of one schema that no component of the other carries
KeysMissing(from, in) ==
  LET there == {KeysOfSchema(in)[i] : i \in DOMAIN KeysOfSchema(in)}
  IN SelectSeq(KeysOfSchema(from), LAMBDA k : k \notin there)

RECURSIVE WellFormedList(_)
RECURSIVE WellFormedComponent(_)

\* an array of component objects, every nested container an array of objects
WellFormedList(list) ==
  /\ list.t = "arr"
  /\ \A i \in DOMAIN list.items : WellFormedComponent(list.items[i])

WellFormedComponent(component) ==
  LET direct == Get(component, "components")
      columns == Get(component, "columns")
      rows == Get(component, "rows")
      holder(h) == /\ h.t = "obj"
                   /\ Get(h, "components").t = "undef" \/ WellFormedList(Get(h, "components"))
  IN /\ component.t = "obj"
     /\ Get(component, "key").t \in {"undef", "str"}
     /\ direct.t = "undef" \/ WellFormedList(direct)
     /\ columns.t = "undef"
          \/ (columns.t = "arr" /\ \A j \in DOMAIN columns.items : holder(columns.items[j]))
     /\ rows.t = "undef"
          \/ (/\ rows.t = "arr"
              /\ \A j \in DOMAIN rows.items :
                   /\ rows.items[j].t = "arr"
                   /\ \A k \in DOMAIN rows.items[j].items : holder(rows.items[j].items[k]))

\* a schema of the data model: an object whose components are a well-formed list
WellFormedSchema(schema) ==
  schema.t = "obj" /\ WellFormedList(Get(schema, "components"))

----------------------------------------------------------------------------
(* C1: key-removal boundary *)

\* the candidate is an edit of the ten-field original
TenFieldCase == verdict.done /\ original = Flat(10) /\ candidate \in TenFieldEdits

MissingOfTen == KeysMissing(original, candidate)

\* C1 as claimed: with 10 uniquely-keyed root components in the original, a
\* candidate missing exactly 5 of the keys gets the removal issue and a
\* candidate missing exactly 4 does not.
C1_BoundaryAsClaimed ==
  TenFieldCase =>
    /\ ~verdict.result.threw
    /\ Len(MissingOfTen) = 5 => HasIssue(verdict.result, RemovalIssue(MissingOfTen))
    /\ Len(MissingOfTen) = 4 => ~HasIssue(verdict.result, RemovalIssue(MissingOfTen))

\* C1 amended: with 10 uniquely-keyed root components in the original, a
\* candidate missing 6 or more of the keys gets the removal issue, listing
\* exactly the missing keys; a candidate missing 5 or fewer gets no issue at
\* all from the removal check.
C1_Boundary ==
  TenFieldCase =>
    /\ ~verdict.result.threw
    /\ Len(MissingOfTen) >= 6 => HasIssue(verdict.result, RemovalIssue(MissingOfTen))
    /\ Len(MissingOfTen) <= 5 =>
         \A keep \in SUBSET (1..10) :
           ~HasIssue(verdict.result, RemovalIssue(Pick(KeysOfSchema(original), keep)))

C1_Witness ==
  /\ TenFieldCase
  /\ Len(MissingOfTen) = 5
  /\ verdict.result.v.valid

----------------------------------------------------------------------------
(* C2: no-op edit *)

NoOpCase == verdict.done /\ original = candidate

Clean(result) == ~result.threw /\ result.v.valid /\ result.v.issues = Undef

\* C2 as claimed: for every schema S (a well-formed component tree),
\* validateAISolution(S, S) is valid with no issues.
C2_NoOpAsClaimed == (NoOpCase /\ WellFormedSchema(candidate)) => Clean(verdict.result)

\* C2 amended: for every schema S that is a well-formed component tree,
\* passes the Schema Validator, has at most 100 components and carries no
\* key twice, validateAISolution(S, S) is valid with no issues.
C2_NoOp ==
  (/\ NoOpCase
   /\ WellFormedSchema(candidate)
   /\ validateFormioSchema(candidate).valid
   /\ Len(NodesOfSchema(candidate)) <= 100
   /\ ~HasDuplicateKey(candidate))
  => Clean(verdict.result)

C2_Witness ==
  /\ NoOpCase
  /\ Len(KeysOfSchema(candidate)) >= 2
  /\ Len(NodesOfSchema(candidate)) > Len(Get(candidate, "components").items)
  /\ Clean(verdict.result)

----------------------------------------------------------------------------
(* C9: duplicate keys *)

\* C9 as claimed: whenever two components of the candidate carry the same
\* key, at any two nesting positions, validateAISolution returns valid =
\* false with the duplicate-key issue, structurally valid candidate or not.
C9_DuplicateKeysFlagged ==
  (verdict.done /\ HasDuplicateKey(candidate)) =>
    /\ ~verdict.result.threw
    /\ ~verdict.result.v.valid
    /\ HasIssue(verdict.result, DuplicateIssue(LaterOccurrences(candidate)))

----------------------------------------------------------------------------
(* C10: totality, no short circuit *)

\* C10 as claimed: validateAISolution returns a verdict for every candidate,
\* the verdict carries the issue of each of the four checks that fails, and
\* valid is true exactly when there is no issue.
C10_TotalNoShortCircuit ==
  verdict.done =>
    /\ ~verdict.result.threw
    /\ verdict.result.v.valid <=> (Issues(verdict.result) = <<>>)
    /\ ~validateFormioSchema(candidate).valid =>
         HasIssue(verdict.result, validateFormioSchema(candidate).errors.items[1])
    /\ Len(NodesOfSchema(candidate)) > 100 =>
         HasIssue(verdict.result, ComplexityIssue(Len(NodesOfSchema(candidate))))
    /\ 2 * Len(KeysMissing(original, candidate)) > Len(KeysOfSchema(original)) =>
         HasIssue(verdict.result, RemovalIssue(KeysMissing(original, candidate)))
    /\ HasDuplicateKey(candidate) =>
         HasIssue(verdict.result, DuplicateIssue(LaterOccurrences(candidate)))

----------------------------------------------------------------------------
(* The orchestrator's properties *)

Settled == outcome.done
Returned == outcome.done /\ ~outcome.result.threw
Failed == outcome.done /\ outcome.result.threw
FailedWith(message) == Failed /\ outcome.result.message = message
IsText == variant = "generateText"

\* generateAIAssistance has been called and has run its gates
Invoked == pc = "awaiting" \/ outcome.done

\* the number of components of the request's schema
CurrentSize == Len(NodesOfSchema(request.currentSchema))

HasLine(markdown, line) == \E i \in DOMAIN markdown : markdown[i] = line

\* the request carries a well-formed component tree that passes the validator
SoundRequest ==
  /\ WellFormedSchema(request.currentSchema)
  /\ validateFormioSchema(request.currentSchema).valid

\* the validateAISolution call of the invocation returned an invalid verdict
InvalidVerdict == verdict.done /\ ~verdict.result.threw /\ ~verdict.result.v.valid

----------------------------------------------------------------------------
(* C3: what is returned and the Schema Validator *)

----------------------------------------------------------------------------
(* C4: the pre-gate *)

IsComplexityError(message) ==
  message \in {TooComplexMessage, TooComplexWithCount(CurrentSize)}

\* C4: once generateAIAssistance has run its gates, a request whose schema
\* has more than 50 components has failed with the complexity error and the
\* generation capability has not been invoked; a schema of exactly 50
\* components has not failed with the complexity error, and with the
\* capability available the generation call has been made.
C4_PreGate ==
  Invoked =>
    /\ CurrentSize > 50 =>
         /\ Failed
         /\ IsComplexityError(outcome.result.message)
         /\ calls = 0
         /\ ~aiOutput.done
    /\ CurrentSize = 50 =>
         /\ ~(Failed /\ IsComplexityError(outcome.result.message))
         /\ aiEnabled => calls = 1

C4_Witness ==
  /\ pc = "settled"
  /\ aiEnabled
  /\ CurrentSize = 51
  /\ Failed /\ IsComplexityError(outcome.result.message)
  /\ calls = 0

----------------------------------------------------------------------------
(* C5: the availability gate *)

\* C5 as claimed: with isAiEnabled() false, generateAIAssistance fails with
\* the capability-unavailable error for any input whatsoever (here: for
\* every well-formed schema).
C5_UnavailableAsClaimed ==
  (IsText /\ SoundRequest /\ ~aiEnabled /\ Settled) => FailedWith(NotConfiguredMessage)

\* C5 amended: with isAiEnabled() false the generateText variant never
\* returns a result and never invokes the capability; it fails with the
\* capability-unavailable error for every schema that passes the complexity
\* pre-gate, the empty schema included, and with the complexity error for a
\* schema of more than 50 components (the pre-gate runs first).  The
\* generateObject variant does not fail for a schema that passes the
\* pre-gate: it returns its mock response, without invoking the capability.
C5_Unavailable ==
  (~aiEnabled /\ Invoked) =>
    /\ calls = 0
    /\ IsText =>
         /\ Failed
         /\ (WellFormedSchema(request.currentSchema) /\ CurrentSize <= 50)
              => FailedWith(NotConfiguredMessage)
         /\ CurrentSize > 50 => FailedWith(TooComplexMessage)
    /\ (~IsText /\ WellFormedSchema(request.currentSchema) /\ CurrentSize <= 50)
         => Returned

C5_Witness ==
  /\ IsText /\ ~aiEnabled
  /\ request.currentSchema = RootedSchema(<<>>)
  /\ FailedWith(NotConfiguredMessage)

----------------------------------------------------------------------------
(* C6: a generation call that fails or answers without a component list *)

\* the text has no fenced json block, or the block does not parse to an object
Unparsed(out) ==
  \/ out.block \in {"none", "unparseable"}
  \/ out.block = "json" /\ IsNullish(out.value)

\* C6 as claimed: when the capability throws, or returns output that cannot
\* be parsed into a component list, generateAIAssistance fails and returns
\* no success result (here: for requests with a well-formed schema).
C6_GenerationFailedAsClaimed ==
  (IsText /\ SoundRequest /\ Settled /\ aiOutput.done) =>
    ((aiOutput.result.threw \/ Unparsed(aiOutput.result.v)) => Failed)

\* C6 amended: when the capability throws, the generateText variant fails
\* with the error thrown (a thrown non-Error becomes "AI service encountered
\* an unexpected error") and returns no result; when the capability's text
\* has no json block or the block cannot be parsed, it does not fail: it
\* returns request.currentSchema unchanged, with a warning in the markdown
\* that says so.  In the generateObject variant a throw of the capability
\* does not fail either: for a well-formed request.currentSchema the mock
\* fallback response is returned.
C6_GenerationFailed ==
  (Settled /\ aiOutput.done) =>
    /\ (IsText /\ aiOutput.result.threw) =>
         FailedWith(IF aiOutput.result.error.isError
                    THEN aiOutput.result.error.message ELSE UnexpectedMessage)
    /\ (~IsText /\ aiOutput.result.threw /\ WellFormedSchema(request.currentSchema)) =>
         /\ Returned
         /\ HasLine(outcome.result.v.markdown, "## AI Assistant (Fallback Mode)")
    /\ (IsText /\ ~aiOutput.result.threw /\ Unparsed(aiOutput.result.v)) =>
         /\ Returned
         /\ outcome.result.v.schema = request.currentSchema
         /\ HasLine(outcome.result.v.markdown,
                    IF aiOutput.result.v.block = "none"
                    THEN "- AI response did not contain valid schema updates"
                    ELSE "- AI response parsing failed, no changes applied")

C6_Witness ==
  /\ IsText /\ Returned /\ aiOutput.done
  /\ aiOutput.result.v.block = "unparseable"
  /\ outcome.result.v.schema = request.currentSchema
  /\ CurrentSize > 0

----------------------------------------------------------------------------
(* C7: the post-check *)

\* the capability's reply carried a warnings value that is no array
ReplyWarningsNoArray ==
  /\ IsText
  /\ aiOutput.result.v.block = "json"
  /\ Truthy(Get(aiOutput.result.v.value, "warnings"))
  /\ Get(aiOutput.result.v.value, "warnings").t # "arr"

\* C7 as claimed: in every path, whenever the verdict on the candidate is
\* invalid the candidate itself is returned, with every issue of the verdict
\* attached as a warning (here: for requests with a well-formed schema and
\* replies whose warnings are an array).
C7_FailOpenAsClaimed ==
  (InvalidVerdict /\ SoundRequest /\ ~ReplyWarningsNoArray) =>
    /\ Returned
    /\ outcome.result.v.schema = candidate
    /\ http.done =>
         /\ http.result.status = 200
         /\ http.result.body.schema = candidate
         /\ http.result.body.warnings = verdict.result.v.issues

\* C7 amended: the post-check is fail-open in the generateText variant and
\* the route: whenever the verdict on the candidate is invalid, the candidate
\* itself is returned with a "Validation issues" warning in the markdown that
\* lists every issue, and the route answers 200 with that candidate, with
\* warnings equal to the verdict's issues and every issue as a list item of
\* the markdown (only a reply whose own warnings value is no array makes the
\* invocation fail instead).  It is not uniform: the generateObject variant
\* returns the mock fallback schema in place of the candidate.
C7_FailOpen ==
  InvalidVerdict =>
    /\ (IsText /\ ReplyWarningsNoArray) => FailedWith(TypeErrorMessage)
    /\ (IsText /\ ~ReplyWarningsNoArray) =>
         /\ Returned
         /\ outcome.result.v.schema = candidate
         /\ HasLine(outcome.result.v.markdown,
                    "- " \o validationWarning(Issues(verdict.result)))
         /\ http.done =>
              /\ http.result.status = 200
              /\ http.result.body.schema = candidate
              /\ http.result.body.warnings = verdict.result.v.issues
              /\ \A i \in DOMAIN Issues(verdict.result) :
                   HasLine(http.result.body.markdown, "- " \o Issues(verdict.result)[i])
    /\ (~IsText /\ Returned) => outcome.result.v.schema # candidate

C7_Witness ==
  /\ IsText /\ InvalidVerdict /\ http.done
  /\ Len(Issues(verdict.result)) >= 2
  /\ http.result.status = 200
  /\ http.result.body.schema = candidate
  /\ http.result.body.warnings = verdict.result.v.issues

----------------------------------------------------------------------------
(* C8: the frame of the candidate assembly *)

\* the root-level fields of a schema other than components
OtherFields(schema) ==
  IF schema.t # "obj" THEN <<>>
  ELSE [name \in DOMAIN schema.f \ {"components"} |-> schema.f[name]]

----------------------------------------------------------------------------
(* C11: what calculateSchemaComplexity counts *)

\* no root component owns components, columns or rows
Unnested(schema) ==
  \A i \in DOMAIN Get(schema, "components").items :
    LET component == Get(schema, "components").items[i]
    IN /\ ~HasProp(component, "components")
       /\ ~HasProp(component, "columns")
       /\ ~HasProp(component, "rows")

\* C11: for every schema (an object whose components form a well-formed
\* tree) calculateSchemaComplexity returns the number of component nodes
\* reached through components, columns[*].components and
\* rows[*][*].components: never negative, 0 exactly when there is no
\* component, the length of the list when no component is nested, and
\* exactly 1 more once all root components are wrapped into one new
\* container (panel, columns or table).
C11_ComplexityCountsNodes ==
  WellFormedSchema(candidate) =>
    /\ lib.complexity.done =>
         /\ ~lib.complexity.result.threw
         /\ lib.complexity.result.v = Len(NodesOfSchema(candidate))
         /\ lib.complexity.result.v >= 0
         /\ lib.complexity.result.v = 0 <=> NodesOfSchema(candidate) = <<>>
         /\ Unnested(candidate) =>
              lib.complexity.result.v = Len(Get(candidate, "components").items)
    /\ (lib.complexity.done /\ lib.wrapped.done) =>
         /\ ~lib.wrapped.result.threw
         /\ lib.wrapped.result.v = lib.complexity.result.v + 1

C11_Witness ==
  /\ WellFormedSchema(candidate)
  /\ lib.complexity.done /\ lib.wrapped.done
  /\ ~Unnested(candidate)
  /\ lib.complexity.result.v = 2
  /\ lib.wrapped.result.v = 3

----------------------------------------------------------------------------
(* C12: what validateFormioSchema returns *)

FormTags == {Undef, Str("form"), Str("wizard")}

----------------------------------------------------------------------------
(* C13: the type rule *)

\* C13 as claimed: an object that carries a type field whose value is
\* neither "form" nor "wizard" is rejected, whatever the JSON type of the
\* value.
C13_TypeRule ==
  (/\ lib.validation.done
   /\ candidate.t = "obj"
   /\ HasProp(candidate, "type")
   /\ Get(candidate, "type") \notin {Null, Str("form"), Str("wizard")})
  => ~lib.validation.result.valid

----------------------------------------------------------------------------
(* C14: validating twice *)

----------------------------------------------------------------------------
(* C15: the complexity figure and the warnings of a success result *)

ComplexityLine(n) == "- Current complexity: " \o ToString(n) \o " components"

\* the capability's reply carries no warnings of its own
ReplyWithoutWarnings ==
  \/ aiOutput.result.v.block # "json"
  \/ ~Truthy(Get(aiOutput.result.v.value, "warnings"))
  \/ Get(aiOutput.result.v.value, "warnings") = Arr(<<>>)

ValidVerdict == verdict.done /\ ~verdict.result.threw /\ verdict.result.v.valid

\* C15 as claimed: the markdown of a success result reports the complexity
\* of the schema of that result, and when the candidate passes the Safety
\* Checker and the capability returned no warnings the result carries no
\* warnings.
C15_FigureAndWarningsAsClaimed ==
  (IsText /\ SoundRequest /\ Returned) =>
    /\ outcome.result.v.markdown[7]
         = ComplexityLine(calculateSchemaComplexity(outcome.result.v.schema).v)
    /\ (ValidVerdict /\ ReplyWithoutWarnings) =>
         ~HasLine(outcome.result.v.markdown, "### Warnings:")

\* C15 amended: the markdown of a success result of the generateText variant
\* reports the complexity of the schema of that same result; when the reply
\* has a json block that parses, the candidate passes the Safety Checker and
\* the reply carries no warnings, the result carries no warnings (no Warnings
\* section in the markdown, no warnings in the route's answer); a reply
\* without a json block that parses always gets a warning saying that
\* nothing was changed.
C15_FigureAndWarnings ==
  (IsText /\ Returned) =>
    /\ outcome.result.v.markdown[7]
         = ComplexityLine(calculateSchemaComplexity(outcome.result.v.schema).v)
    /\ (ValidVerdict /\ ReplyWithoutWarnings /\ ~Unparsed(aiOutput.result.v)) =>
         /\ ~HasLine(outcome.result.v.markdown, "### Warnings:")
         /\ http.done => (http.result.status = 200 /\ http.result.body.warnings = Undef)
    /\ Unparsed(aiOutput.result.v) =>
         HasLine(outcome.result.v.markdown, "### Warnings:")

\* current [name], returned [name, email]
C15_Witness ==
  /\ IsText /\ Returned /\ http.done
  /\ Get(request.currentSchema, "components") = Arr(<<Leaf("name")>>)
  /\ Get(outcome.result.v.schema, "components") = Arr(<<Leaf("name"), Leaf("email")>>)
  /\ calculateSchemaComplexity(outcome.result.v.schema) = Ok(2)
  /\ HasLine(outcome.result.v.markdown, "- Current complexity: 2 components")
  /\ HasLine(outcome.result.v.markdown, "Added an email field to your form.")
  /\ ~HasLine(outcome.result.v.markdown, "### Warnings:")
  /\ http.result.body.warnings = Undef

----------------------------------------------------------------------------
(* Overlapping invocations                                                 *)

\* what one invocation yields when run alone on its own request with the
\* capability behaving as recorded in ran (not reached, resolved or rejected)
Alone(req, ran) ==
  IF ~ran.done
  THEN { IF variant = "generateText" THEN generateTextGates(req, aiEnabled)
         ELSE generateObjectGates(req, aiEnabled, now) : now \in Clock }
  ELSE IF ran.result.threw
  THEN { IF variant = "generateText" THEN rethrown(ran.result.error)
         ELSE fallbackOnError(generateMockResponse(req, now), ran.result.error) :
         now \in Clock }
  ELSE { IF variant = "generateText" THEN generateTextResolved(req, ran.result.v).result
         ELSE generateObjectResolved(req, ran.result.v, now).result : now \in Clock }

PairSettled(i) == pair.inv # <<>> /\ pair.inv[i].pc = "settled"

Awaiting(i) == pair.inv # <<>> /\ pair.inv[i].pc = "awaiting"

----------------------------------------------------------------------------
(* Cancellation and timeout of the generation call                         *)

\* the awaited generation call rejected because it was cancelled or timed out
Interrupted ==
  /\ aiOutput.done
  /\ aiOutput.result.threw
  /\ aiOutput.result.error.cause \in {"cancelled", "timeout"}

\* the outcomes the invocation has when the call rejects for another reason
OrdinaryFailures ==
  { IF variant = "generateText" THEN rethrown(error)
    ELSE fallbackOnError(generateMockResponse(request, now), error) :
    error \in {e \in Errors : e.cause = "failure"}, now \in Clock }

\* C17: when the generation call is cancelled or times out during the
\* await, the invocation fails, returns no result, and its failure is one
\* that no other failure of the call produces.
C17_CancelledDistinguishable ==
  (Settled /\ Interrupted) =>
    /\ Failed
    /\ outcome.result \notin OrdinaryFailures

----------------------------------------------------------------------------
(* No retry                                                                *)

\* the awaited generation call rejected
CallFailed == aiOutput.done /\ aiOutput.result.threw

\* the message the catch block of the generateText variant fails with
SurfacedMessage ==
  IF aiOutput.result.error.isError THEN aiOutput.result.error.message
  ELSE UnexpectedMessage

Answered == http.done /\ pc = "responded"

\* C18 as claimed: the capability is invoked at most once, and a failure of
\* that call is surfaced as an error, the route answering 500, never
\* replaced by a success result.
C18_NoRetryAsClaimed ==
  /\ calls <= 1
  /\ (Settled /\ CallFailed /\ SoundRequest) => Failed
  /\ (Answered /\ CallFailed /\ SoundRequest) => http.result.status = 500

\* C18 amended: the capability is invoked at most once per invocation and
\* never again after it answered or failed.  In the generateText variant a
\* failure of that call is surfaced as an error carrying the thrown Error's
\* message (or the unexpected-error message), and the route answers 500
\* with that message.  In the generateObject variant the failure is not
\* retried either, but for a well-formed schema it is replaced by the mock
\* fallback response, and the route answers 200.
C18_NoRetry ==
  /\ calls <= 1
  /\ aiOutput.done => calls = 1
  /\ (Settled /\ CallFailed /\ IsText) =>
       /\ FailedWith(SurfacedMessage)
       /\ Answered => http.result = Response(500, [error |-> SurfacedMessage])
  /\ (Settled /\ CallFailed /\ ~IsText /\ WellFormedSchema(request.currentSchema)) =>
       /\ Returned
       /\ HasLine(outcome.result.v.markdown, "## AI Assistant (Fallback Mode)")
       /\ Answered => http.result.status = 200

\* the single generation call failed and the route answered 500 with its message
C18_Witness ==
  /\ IsText /\ via = "route" /\ Answered /\ CallFailed
  /\ calls = 1
  /\ http.result = Response(500, [error |-> "Rate limit exceeded"])

----------------------------------------------------------------------------
(* Malformed bodies                                                        *)

MessageMalformed ==
  Len(request.message) = 0 \/ Len(request.message) > MaxMessageLength

\* the currentSchema key is missing, or its value is no object
SchemaMalformed == request.currentSchema.t # "obj"

\* the request passed the route's gates: generateAIAssistance was called
ReachedService == pc \in {"ready", "awaiting", "settled"} \/ outcome.done

\* C19: a POST /form-assist request with a malformed body (message empty or
\* longer than 1000 characters, currentSchema missing or no object) is
\* answered 400 by body validation and reaches neither generateAIAssistance
\* nor the generation call.
C19_MalformedRejected ==
  (via = "route" /\ (MessageMalformed \/ SchemaMalformed)) =>
    /\ ~ReachedService
    /\ calls = 0
    /\ Answered => http.result = validationFailed

----------------------------------------------------------------------------
(* Gate order of the route                                                 *)

\* the body passed validateBody
BodyAccepted == ~validateBody(request).threw

\* the route answered at one of its gates, without calling generateAIAssistance
AnsweredAtGate == Answered /\ ~outcome.done

\* the complexity check of the route on the request's schema
RouteTooBig == isSchemaTooBigForAI(request.currentSchema)

----------------------------------------------------------------------------
(* POST /validate-schema                                                   *)

Posted == lib.posted.done

PostedSchema == Get(lib.posted.result.body, "schema")

PostedAnswer == lib.posted.result.answer

\* the data object of a 200 answer
PostedData == PostedAnswer.body.data

----------------------------------------------------------------------------
(* The accept / reject workflow of the dialog                              *)

\* a step in which onAccept is called
OnAcceptCalled == ui'.onAcceptCalls # ui.onAcceptCalls

\* C22: across every sequence of dialog actions, onAccept is called only by
\* Accept, and with the schema of the response displayed at that
\* moment; Reject, Try Again, Close and Submit never call it, and nothing
\* else changes the schema last handed to onAccept.
C22_NonDestructive ==
  [][ /\ OnAcceptCalled =>
           /\ Accept
           /\ ResponseShown
           /\ ui'.applied = Some(ui.response.v.schema)
      /\ ~OnAcceptCalled => ui'.applied = ui.applied
      /\ (Reject \/ TryAgain \/ Close \/ Submit) => ~OnAcceptCalled
    ]_vars

\* a suggestion was accepted in the hooks dialog: its schema went to
\* onAccept, and the dialog still holds the response it came from
C22_Witness ==
  /\ ui.mounted
  /\ ui.dialog = "hooks"
  /\ ui.onAcceptCalls
  /\ ui.response.some
  /\ ui.applied = Some(ui.response.v.schema)
  /\ ui.applied.v = RootedSchema(<<Leaf("k1"), Leaf("k1")>>)

----------------------------------------------------------------------------
(* State of useAiFormAssist under overlapping requests                     *)

InFlight == Len(ui.flights)

\* the hook holds exactly the outcome of the most recently issued request
HoldsLatest ==
  /\ ui.latest.some
  /\ IF ui.latest.v.ok
     THEN ui.response = Some(ui.latest.v.value) /\ ~ui.error.some
     ELSE ui.error = Some(ui.latest.v.value) /\ ~ui.response.some

\* C26: whatever the interleaving of requestAssistance calls and their
\* completions, isLoading is true while a request is in flight, response
\* and error are never both set, and once every request has completed the
\* hook holds the outcome of the most recently issued request.
C26_HookConsistent ==
  /\ InFlight > 0 => ui.isLoading
  /\ ~(ui.response.some /\ ui.error.some)
  /\ (InFlight = 0 /\ ui.latest.some) => HoldsLatest

----------------------------------------------------------------------------
(* C23: removal detection compares keys as sets *)

RemovalPrefix == "Solution removes too many existing form fields: "

\* the verdict carries the removal issue, whatever keys it lists
RemovalReported ==
  \E i \in DOMAIN Issues(verdict.result) :
    /\ Len(Issues(verdict.result)[i]) >= Len(RemovalPrefix)
    /\ SubSeq(Issues(verdict.result)[i], 1, Len(RemovalPrefix)) = RemovalPrefix

KeySet(schema) == {KeysOfSchema(schema)[i] : i \in DOMAIN KeysOfSchema(schema)}

DistinctRemoved == KeySet(original) \ KeySet(candidate)

\* C23: on well-formed schemas the removal issue is appended exactly when the
\* number of distinct keys of the original that the candidate lacks exceeds
\* half of the original's key count, a key the original carries twice being
\* counted once: the issue is never appended unless the distinct removed
\* keys exceed half of the original's distinct keys, always appended when
\* they exceed half of the original's key occurrences, and never appended
\* for an original without keys.
C23_RemovalAsSets ==
  (verdict.done /\ WellFormedSchema(original) /\ WellFormedSchema(candidate)) =>
    /\ ~verdict.result.threw
    /\ RemovalReported =>
         2 * Cardinality(DistinctRemoved) > Cardinality(KeySet(original))
    /\ 2 * Cardinality(DistinctRemoved) > Len(KeysOfSchema(original)) => RemovalReported
    /\ Len(KeysOfSchema(original)) = 0 => ~RemovalReported

----------------------------------------------------------------------------
(* C24: hard ceiling of the Safety Checker *)

\* text occurs somewhere in within
Mentions(within, text) ==
  \E i \in 1..(Len(within) - Len(text) + 1) :
    SubSeq(within, i, i + Len(text) - 1) = text

ComplexityPrefix == "Solution is too complex ("

\* the issues of the verdict that open as the complexity issue does
ComplexityIssues ==
  SelectSeq(Issues(verdict.result),
            LAMBDA issue : /\ Len(issue) >= Len(ComplexityPrefix)
                           /\ SubSeq(issue, 1, Len(ComplexityPrefix)) = ComplexityPrefix)

Ceiling == MAX_SCHEMA_COMPLEXITY_FOR_AI * 2

CandidateComplexity == calculateSchemaComplexity(candidate).v

CeilingCase == verdict.done /\ ~verdict.result.threw

----------------------------------------------------------------------------
(* C25: the Response Formatter *)

WarningsHeading == "### Warnings:"

\* the positions of the warnings heading in a markdown
HeadingsIn(markdown) == {i \in DOMAIN markdown : markdown[i] = WarningsHeading}

\* the list handed over as warnings, empty when the argument was left out
WarningsGiven == IF lib.warnings.t = "arr" THEN lib.warnings.items ELSE <<>>

\* markdown is as the claim describes it for the arguments in lib
AsDescribed(markdown) ==
  /\ \E i \in DOMAIN markdown : markdown[i] = lib.explanation.s
  /\ \E i \in DOMAIN markdown :
       markdown[i] = "- Current complexity: " \o ToString(lib.complexity) \o " components"
  /\ Cardinality(HeadingsIn(markdown)) = (IF Len(WarningsGiven) > 0 THEN 1 ELSE 0)
  /\ \A h \in HeadingsIn(markdown) :
       /\ \A i \in DOMAIN WarningsGiven : markdown[h + i] = "- " \o WarningsGiven[i]
       /\ markdown[h + Len(WarningsGiven) + 1] = ""

\* C25: the output of formatMarkdownResponse (either template) holds the
\* explanation verbatim and the complexity value, and holds a warnings
\* section, with one list item per warning in input order, exactly when
\* warnings is a non-empty list: no section for undefined or an empty list.
C25_Formatter ==
  /\ lib.markdown.tool.done => AsDescribed(lib.markdown.tool.result)
  /\ lib.markdown.structured.done => AsDescribed(lib.markdown.structured.result)

C25_Witness ==
  /\ lib.markdown.tool.done
  /\ lib.markdown.structured.done
  /\ Len(WarningsGiven) = 2
  /\ WarningsGiven[1] # WarningsGiven[2]
  /\ Cardinality(HeadingsIn(lib.markdown.tool.result)) = 1

----------------------------------------------------------------------------
(* C27: a reply that parses but brings no components list *)

NoChangeWarnings ==
  {"AI response did not contain valid schema updates",
   "AI response parsing failed, no changes applied"}

WarnsNoChange ==
  \E w \in NoChangeWarnings : HasLine(outcome.result.v.markdown, "- " \o w)

\* the text held a json block that parsed
ParsedReply == aiOutput.done /\ ~aiOutput.result.threw /\ aiOutput.result.v.block = "json"

ReplyValue == aiOutput.result.v.value

KeepsComponents ==
  Get(outcome.result.v.schema, "components") = Get(request.currentSchema, "components")

\* C27 as claimed: when the output parses as JSON but carries no components
\* list, the returned schema has exactly the components of
\* request.currentSchema and the result has no warning that no change was
\* applied.
C27_NoListAsClaimed ==
  (/\ IsText /\ Returned /\ ParsedReply
   /\ Get(ReplyValue, "components").t # "arr")
  => (KeepsComponents /\ ~WarnsNoChange)

\* C27 amended: when the output parses as JSON to a value other than null
\* whose components are absent or falsy, the returned schema has exactly the
\* components of request.currentSchema and no warning that no change was
\* applied; when it parses to null the same schema is returned with the
\* parse-failure warning; a truthy components value that is no list becomes
\* the components of the returned schema.
C27_NoList ==
  (IsText /\ Returned /\ ParsedReply) =>
    /\ (~IsNullish(ReplyValue) /\ ~Truthy(Get(ReplyValue, "components")))
         => (KeepsComponents /\ ~WarnsNoChange)
    /\ IsNullish(ReplyValue)
         => /\ outcome.result.v.schema = request.currentSchema
            /\ HasLine(outcome.result.v.markdown,
                       "- AI response parsing failed, no changes applied")
    /\ (~IsNullish(ReplyValue) /\ Truthy(Get(ReplyValue, "components")))
         => Get(outcome.result.v.schema, "components") = Get(ReplyValue, "components")

C27_Witness ==
  /\ IsText /\ Returned /\ ParsedReply
  /\ ~IsNullish(ReplyValue)
  /\ ~Truthy(Get(ReplyValue, "components"))
  /\ Get(request.currentSchema, "components").t = "arr"
  /\ Len(Get(request.currentSchema, "components").items) > 0
  /\ KeepsComponents
  /\ ~WarnsNoChange

----------------------------------------------------------------------------
(* C28: what a 200 answer of POST /form-assist carries *)

Answered200 == http.done /\ http.result.status = 200

\* the verdict the route computes on the schema generateAIAssistance returned
RouteVerdict == validateAISolution(request.currentSchema, outcome.result.v.schema)

\* the answer in http is the one the claim describes for a result and the
\* route's verdict on it
AnswerFits(result, validation) ==
  /\ ~validation.threw
  /\ Len(http.result.body.markdown) >= Len(result.markdown)
  /\ SubSeq(http.result.body.markdown, 1, Len(result.markdown)) = result.markdown
  /\ http.result.body.schema = result.schema
  /\ http.result.body.schema # Undef
  /\ (http.result.body.previewId # Undef) <=> validation.v.valid
  /\ (http.result.body.warnings # Undef) <=> ~validation.v.valid
  /\ ~validation.v.valid =>
       /\ http.result.body.warnings = validation.v.issues
       /\ Len(Issues(validation)) > 0
       /\ \A i \in DOMAIN Issues(validation) :
            http.result.body.markdown[Len(result.markdown) + 2 + i]
              = "- " \o Issues(validation)[i]
  /\ validation.v.valid => http.result.body.markdown = result.markdown

----------------------------------------------------------------------------
(* C29: when the dialog sends a form-assist request *)

\* a step in which the dialog issued a request
RequestIssued == Len(ui'.flights) > Len(ui.flights)

\* the state the dialog is in allows a request
MaySend ==
  /\ ui.limits.some
  /\ ui.limits.v.aiEnabled
  /\ Trim(ui.message) # <<>>
  /\ ~aiServiceCalculateSchemaComplexity(ui.currentSchema).threw
  /\ aiServiceCalculateSchemaComplexity(ui.currentSchema).v <= ui.limits.v.maxComplexity

\* C29: the dialog issues a form-assist request only in a state where the
\* limits have been loaded with aiEnabled = true, the trimmed message is not
\* empty and the client-side complexity of the current schema is at most
\* limits.maxComplexity; submitting in any other state, limits not yet
\* loaded included, sends nothing.  The request sent carries the trimmed
\* message and the current schema.
C29_GatedSubmit ==
  [][RequestIssued =>
       /\ MaySend
       /\ ui'.flights[Len(ui'.flights)].request =
            [message |-> Trim(ui.message), currentSchema |-> ui.currentSchema]]_vars

C29_Witness ==
  /\ ui.mounted
  /\ Len(ui.flights) > 0
  /\ ui.isLoading
  /\ ui.limits.some
  /\ ui.limits.v.aiEnabled
  /\ ui.flights[1].request.message = <<"h", "i">>
  /\ ui.message # ui.flights[1].request.message

----------------------------------------------------------------------------
(* C30: the client's estimate and the server's gate *)

BothMeasured == lib.complexity.done /\ lib.client.done

\* the client's check against the limits that GET /limits serves
ClientAccepts ==
  /\ ~lib.client.result.threw
  /\ lib.client.result.v <= limitsOf(TRUE).maxComplexity

\* C30: for every schema whose component lists (root, nested, columns and
\* rows) are arrays, the client-side calculateSchemaComplexity returns the
\* value the server-side calculateSchemaComplexity returns, and the client's
\* check 'complexity <= maxComplexity' accepts the schema exactly when the
\* server's isSchemaTooBigForAI is false.
C30_SameGate ==
  (BothMeasured /\ WellFormedSchema(candidate)) =>
    /\ ~lib.complexity.result.threw
    /\ lib.client.result = lib.complexity.result
    /\ ~isSchemaTooBigForAI(candidate).threw
    /\ ClientAccepts <=> ~isSchemaTooBigForAI(candidate).v

C30_Witness ==
  /\ BothMeasured
  /\ WellFormedSchema(candidate)
  /\ Len(NodesOfSchema(candidate)) > Len(Get(candidate, "components").items)
  /\ lib.client.result = lib.complexity.result
  /\ ~ClientAccepts
  /\ isSchemaTooBigForAI(candidate).v

============================================================================
